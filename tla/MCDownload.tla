----------------------------- MODULE MCDownload ------------------------------
(***************************************************************************)
(* Instances of Download for TLC: a company of two tickers, with an        *)
(* amendment among its 10-Ks, listed out of order, and a company with one  *)
(* 10-K.                                                                   *)
(***************************************************************************)
EXTENDS Download

CONSTANTS g1, g2, g3, g4, n1

Alphabet == << [id |-> g1, form |-> "10-K",   date |-> 1],
               [id |-> g4, form |-> "10-K/A", date |-> 4],
               [id |-> g3, form |-> "10-K",   date |-> 3],
               [id |-> g2, form |-> "10-K",   date |-> 2] >>

MCSubmissions ==
  [GOOG  |-> Alphabet,
   GOOGL |-> Alphabet,
   NVDA  |-> << [id |-> n1, form |-> "10-K",   date |-> 1] >>]

MCOrders == { [tickers |-> <<"GOOG">>, years |-> 1],
              [tickers |-> <<"NVDA", "GOOG">>, years |-> 2],
              [tickers |-> <<"GOOGL", "GOOG">>, years |-> -1],
              [tickers |-> <<"GOOG", "GOOG">>, years |-> 3] }

=============================================================================
