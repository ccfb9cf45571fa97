------------------------------ MODULE MCSearch ------------------------------
(***************************************************************************)
(* Instances of RetrievalEval for TLC: three filings, of two companies and *)
(* two years, questions of every kind the code tells apart, evaluations.   *)
(***************************************************************************)
EXTENDS RetrievalEval

MCDocumentOf == << [ticker |-> "AAPL", year |-> 2024],
                   [ticker |-> "AMZN", year |-> 2024],
                   [ticker |-> "AAPL", year |-> 2025] >>

MCItems == <<"1a", "7">>

Plain == [mode |-> "hybrid", k |-> 2, rerank |-> TRUE, filters |-> NoFilters,
          mentions |-> {}, years |-> <<>>, comparison |-> FALSE, refs |-> <<>>]

\* "Compare Apple and Amazon ...", with room for both, and with room for one.
TwoCompanies == [Plain EXCEPT !.mentions = {"AAPL", "AMZN"}, !.comparison = TRUE]
TwoCompaniesTop1 == [TwoCompanies EXCEPT !.k = 1]
TwoCompaniesPlain == [TwoCompanies EXCEPT !.rerank = FALSE]

\* The same question asked with filters.
TwoCompaniesItem == [TwoCompanies EXCEPT !.filters.items = <<"7">>,
                                         !.filters.fiscal_years = <<2024>>]
TwoTickers == [Plain EXCEPT !.filters.tickers = <<"AAPL", "AMZN", "AAPL">>, !.rerank = FALSE]

\* "How did Apple's ... evolve between 2024 and 2025?", and with no company.
TwoYears == [Plain EXCEPT !.mentions = {"AAPL"}, !.years = <<2024, 2025, 2024>>,
                          !.comparison = TRUE]
TwoYearsNobody == [TwoYears EXCEPT !.mentions = {}, !.filters.items = <<"7">>]

\* No scopes, and no full-text search.
OneCompany == [Plain EXCEPT !.mentions = {"AAPL"}, !.years = <<2024, 2025>>,
                            !.filters.items = <<"1a">>]
VectorMode == [Plain EXCEPT !.mode = "vector", !.filters.tickers = <<"AAPL">>]
VectorModePlain == [VectorMode EXCEPT !.rerank = FALSE]

\* Golden questions: evaluations know no filters.
GoldenCompare == [TwoCompaniesPlain EXCEPT !.refs = << [filing |-> 1, item |-> "7"],
                                                       [filing |-> 2, item |-> "1a"] >>]
GoldenYears == [Plain EXCEPT !.rerank = FALSE, !.mode = "vector",
                  !.refs = << [filing |-> 1, item |-> "7"], [filing |-> 3, item |-> "7"] >>]

MCQueries == {GoldenCompare, GoldenYears,
              TwoCompanies, TwoCompaniesTop1, TwoCompaniesPlain, TwoCompaniesItem, TwoTickers,
              TwoYears, TwoYearsNobody, OneCompany, VectorMode, VectorModePlain}

=============================================================================
