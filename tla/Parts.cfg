SPECIFICATION Spec
CONSTANTS
  Kinds = {"Daemon", "Registration", "Cli", "Tags", "MsgTags", "ClassId", "PacketMemory", "SerBuffer", "SerStream", "BlockEntry", "BlockVariable", "RoundRobin", "SharedQueue", "MainProgram", "PacketParse", "NewPacket", "DnsPacket", "FlowPayload", "FlowHash", "TimeConv", "FlowMeter", "Counters", "Filters", "Selectors", "Demux", "Anonymizer", "IpfixPipe", "AlertExport", "Digests", "Sha1Class", "Lookup3", "KHash", "BloomHash", "ACHash31", "Bloom", "Tewma", "Cusum", "FeaturesExtractor", "TicketPipeline", "Binning", "ADTest", "ADPrune", "Jsmn", "TweetPipe", "CallRecords"}
INVARIANTS
  
  MessagesKeepTheirOwn
  
  
  BlocksGetTheirTurn
  PacketsAreReadRight
  
  MessagesPassAsTheyShould
  ExportedAsMeant
  
  SketchesAreSound
  
CHECK_DEADLOCK FALSE
