SPECIFICATION Spec
CONSTANTS
  BufferSize = 3
  MAX_EVENTS = 3
  Configs <- MCConfigs
  MAX_LINE = 2
  MAX_ATTEMPTS = 2
  MAX_HEADER_BYTES = 7
  MAX_HEADER_COUNT = 2
  Requests <- MCRequests
  MAX_IDENTIFICATION_BYTES = 4
INVARIANTS
  RecordTruthful PrivacyKept TelnetFaithful HttpFraming HttpStrict SshFaithful
