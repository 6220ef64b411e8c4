SPECIFICATION Spec
CONSTANTS
  sa = sa
  sb = sb
  sc = sc
  j1 = j1
  j2 = j2
  j3 = j3
  plugin = plugin
  pdf = pdf
  csv = csv
  Jobs = {j1, j2, j3}
  Stages = {sa, sb, sc}
  Tags = {tag1}
  Groups = {group1, group2}
  NoGroup = NoGroup
  NoJob = NoJob
  NoTask = NoTask
  NoStage = NoStage
  MaxRecentHistory = 2
  Plugins = {plugin}
  Extensions = {pdf, csv}
  Extras <- MCExtras
  ANY = ANY
  Versions = {v1, v2}
  NoVersion = NoVersion
  MinContextSamplesForSpecific = 2
  MIN_SAMPLES_COLD = 2
  LRU_MAX = 3
  StageContext <- MCStageContext
  Seeds <- MCSeeds
  Pipelines <- MCPipelines
  Maps <- MCMaps
  Batches <- MCBatches
  Slices <- MCSlices
INVARIANTS TypeOK CountsAgree IndexesAgree LogTellsStatus HandedOverOnce BuildIsRight FallbacksKnowMore
CHECK_DEADLOCK FALSE
