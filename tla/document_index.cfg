SPECIFICATION FairSpec
CONSTANTS
  Workers = {w1, w2}
  Nobody = nobody
  report = report
  blank = blank
  t1 = t1
  t2 = t2
  t3 = t3
  Contents = {report, blank}
  Models = {m1, m2}
  chunks_of <- SmallChunks
  batch_size = 2
  max_attempts = 2
  MaxUploads = 4
  MaxDeletes = 2
CHECK_DEADLOCK FALSE
INVARIANTS TypeOK ChunksHaveTheirVectors AnswersMatchTheModel
PROPERTY UploadsFinish
