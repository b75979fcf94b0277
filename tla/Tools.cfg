SPECIFICATION Spec
CONSTANTS
  Root <- RootText
  Configs <- AllConfigs
  PipelineNames <- NamesTwo
  ObjectKeys <- AllKeys
  CheckerArgs <- AllArgs
  BucketKeys <- Bucket
  MaxFailures = 1
  MaxEdits = 2
INVARIANT DryRunPredicts
INVARIANT ObjectsReachTheirPipeline
INVARIANT DownloadsAccounted
INVARIANT CredentialsFromOnePlace
