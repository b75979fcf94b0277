SPECIFICATION Spec
CONSTANTS
  Lines <- AllLines
  Filters <- AllFilters
  Mappers <- AllMappers
  NowText <- Now
INVARIANT FilterAsDocumented
INVARIANT MappersDropNoObject
INVARIANT FieldsSurvive
INVARIANT CefReadsBack
CHECK_DEADLOCK FALSE
