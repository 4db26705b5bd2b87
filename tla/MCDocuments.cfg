CONSTANTS
  \* JSON: six units of text, two levels
  MaxJson = 6  MaxDepth = 2
  \* TOML: three lines over two keys; strings, numbers and date-times
  TomlKeys = {a, b}  MaxLines = 3
  MaxText = 4  MaxNumber = 5  NanoDigits = 2  Offsets = {0, 90, 30, 61}
  \* YAML: three lines at two columns, scalars of three characters
  YamlKeys = {a, b}  Columns = {0, 2}  Indent = 2  YamlDepth = 8  MaxYamlLines = 3
  MaxYamlPlain = 3
  \* XML, INI, CSV
  Trim = TRUE  XmlDepth = 2  MaxPieces = 4
  MaxRaw = 5  IniSections = {"", "s"}  IniKeys = {"a", "b"}  IniValues = {"x", "y"}
  QuotedValues = {"x"}
  MaxRecords = 3  MaxEdits = 2
  MaxCsv = 5
  \* ZIP and GZIP: a payload that holds a signature, sizes that wrap
  EntryNames = {"n"}  Payload = {"b", "s"}  Signature = "s"  MaxTotal = 2  MaxZipOps = 7
  MaxPrefix = 2
  GzipBytes = {"a", "b"}  MaxMembers = 2  MaxGzip = 3  SizeModulus = 2  MaxBuffer = 2
  \* buffered streams: requests smaller and larger than the buffer
  BufferSize = 2  SourceLength = 5  Delimiters = {3}  MaxRequest = 3  MaxIoCalls = 4
  \* digests: more than two blocks; encodings and modes
  BlockSize = 4  LengthBytes = 2  MaxMessage = 11
  Octets = {0, 1, 32, 97, 255}  MaxOctets = 4  Symbols = {1, 16, 64, 65}  MaxSymbols = 5
  Radix = 4  BlockBytes = 2  MaxPlain = 5
  \* UTF-8 and UTF-16: every class of lead and trail byte
  Bytes = {32, 65, 128, 144, 160, 192, 194, 224, 227, 237, 240, 244}  MaxBytes = 4
  Points = {32, 65, 160, 12288, 65536}  MaxPoints = 3
  Units = {65, 55296, 56320}  MaxUnits = 3
  \* string pool and arena
  Pools = {"p", "q"}  Handles = {"h", "i"}  Arenas = {"m", "n"}  ChunkSize = 2  MaxEntries = 3
  \* byte buffers: three-bit bytes, varints of five bits, a size that overflows
  Base = 8  VarBits = 5  GroupBits = 2  MinCapacity = 2  SizeMax = 7  MaxPuts = 2  MaxWireBytes = 3
  \* command line, store and file tree
  MaxArgs = 4
  Stores = {s1, s2}  KvKeys = {k1, k2}  KvValues = {v1}  BadValues = {nan}
  MaxSaves = 3  MaxSets = 2
  FileNames = {"a", "b"}  FileProcs = {"x", "y"}  MaxFileOps = 2  MaxPattern = 3  MaxSubject = 3
  \* Result and Option: any of two onto any, itself included
  ResultObjects = {"r1", "r2"}  OptionObjects = {"p1", "p2"}  Contained = {"v1", "v2"}
SPECIFICATION Spec
INVARIANTS DocumentsReadBack BytesSurvive StoresAreSound
CHECK_DEADLOCK FALSE
