SPECIFICATION Spec
CONSTANT Components = {"dtls", "channels", "negotiation", "pipeline", "binding", "formats"}
INVARIANTS DtlsAgree ChannelsSettle PeersAgree StateTold FormatsAgree
PROPERTIES ImplementsChannel StreamsHeard
CHECK_DEADLOCK FALSE
