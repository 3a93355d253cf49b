SPECIFICATION FairSpec
CONSTANTS
  MaxVersion = 3
  MaxText = 3
INVARIANTS
  TypeOK
  QueuedMeetingHasRecording
  RefusedUploadLeavesNothing
  PageAtRestIsComplete
  NoticeIsTrue
  EditsAtRestAreStored
  NamesReplaceWords
  SpeakersLineIsComplete
PROPERTIES
  ListKeepsUpload
  OwnUploadAppears
  ListSettles
  UploadIsAnswered
  TypedNameSurvives
  PageSettles
CHECK_DEADLOCK FALSE
