\* The encoder that is given the bit rate.  The range of video rates, 25000 to
\* 25000000, is 3 to 9 here, sample rates are in thousands and the largest int is 50: it must
\* be more than 5 * MaxChannels.  Of 102 and more the unsigned int is what is over 102.
CONSTANTS
  Sizes = {1, 2}
  Rates <- SomeRates
  SampleRates = {1, 44, 48, 146}
  ChannelCounts = {0, 1, 2, 5, 6, 104}
  SupportedSampleRates = {44, 48}
  DefaultSampleRate = 44
  MaxChannels = 5
  MinVideoRate = 3
  MaxVideoRate = 9
  IntMax = 50
  VideoEncoder = "v4l2h264enc"
SPECIFICATION Spec
INVARIANTS TypeOK BuiltAsTold SnapshotFits
