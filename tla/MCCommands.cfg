CONSTANTS
  Segments <- SomeSegments
  g_tmpMQTTSubscr <- Topic
  g_tmpMQTTPublish <- Topic
  SearchReply <- Reply
  MQTT_BUF_SIZE = 153
  QUEUE_BUFFER_SIZE = 200
  Rooms = {0, 64, 200}

SPECIFICATION Spec
INVARIANT TypeOK
INVARIANT DoneAsSent
INVARIANT AnswersRead
INVARIANT AnswersQueued
