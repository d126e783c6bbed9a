CONSTANTS
  e1 = e1
  e2 = e2
  Process <- MCProcess
  CafFile <- MCCafFile
  MaxCrashes = 1
  DocumentQuestions <- MCDocumentQuestions
  SettlementQuestions <- MCSettlementQuestions
  ExportQuestions <- MCExportQuestions
  CafQuestions <- MCCafQuestions
  Emissions <- MCEmissions
  SiiRuts <- MCSiiRuts
  RegistryQuestions <- MCRegistryQuestions
  BookQuestions <- MCBookQuestions
  GuideQuestions <- MCGuideQuestions
  ReportQuestions <- MCReportQuestions
SPECIFICATION MCSpec
INVARIANTS
  TotalsReachTheBook
  SummaryMatchesDetail
  ComparisonsTell
  CafNeverOverstays
  ReadySetsGoOut
  SetsAreWhole
  EngineFoliosUnique
CHECK_DEADLOCK FALSE
