CONSTANTS
  Req <- MCReq
  QueriesOf <- MCQueriesOf
  TopkOf <- MCTopkOf
  Ranking <- MCRanking
  MaxBatch = 2
SPECIFICATION FairSpec
PROPERTIES KeepsPromise
