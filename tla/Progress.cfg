SPECIFICATION SumSpec
PROPERTIES PlayersGoOn WorkerAnswers  RequestsEnd
CHECK_DEADLOCK FALSE
