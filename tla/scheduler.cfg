SPECIFICATION Spec
CONSTANTS
  Jobs = {blocks, j1, j2, j3}
  Types = {t1, t2}
  BlocksJob = blocks
INVARIANTS TypeOK RespectsDependencies EachOnce LeastClosure RefusesCycles
