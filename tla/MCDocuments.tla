----------------------------- MODULE MCDocuments ----------------------------
(***************************************************************************)
(* The libraries that read and write documents, archives and texts, one at *)
(* a time: "part" says which of them a behaviour is about.                 *)
(***************************************************************************)
EXTENDS Naturals, Sequences, FiniteSets

CONSTANTS
  MaxJson, MaxDepth, TomlKeys, MaxLines, MaxText, MaxNumber, NanoDigits, Offsets, YamlKeys,
  Columns, Indent, YamlDepth, MaxYamlLines, MaxYamlPlain, Trim, XmlDepth, MaxPieces, MaxRaw,
  IniSections, IniKeys, IniValues, QuotedValues, MaxRecords, MaxEdits, MaxCsv, EntryNames, Payload, Signature,
  MaxTotal, MaxZipOps, MaxPrefix, GzipBytes, MaxMembers, MaxGzip, SizeModulus, MaxBuffer,
  BufferSize, SourceLength, Delimiters, MaxRequest, MaxIoCalls, BlockSize, LengthBytes,
  MaxMessage, Octets, MaxOctets, Symbols, MaxSymbols, Radix, BlockBytes, MaxPlain, Bytes,
  MaxBytes, Points, MaxPoints, Units, MaxUnits, Pools, Handles, Arenas, ChunkSize, MaxEntries,
  Base, VarBits, GroupBits, MinCapacity, SizeMax, MaxPuts, MaxWireBytes, MaxArgs, Stores,
  KvKeys, KvValues, BadValues, MaxSaves, MaxSets, FileNames, FileProcs, MaxFileOps, MaxPattern,
  MaxSubject, ResultObjects, OptionObjects, Contained

VARIABLES
  part,                 \* the component that is checked
  trailing, read, jplace, stack_, lexeme, high, root_,
  state, nlines, section, owner,
  text, number, datetime,
  lines_, document_, yaml_plain,
  parser, npieces,
  raw, records_, values_of, edits,
  csv, trim_unquoted_space,
  out, opened, archive, ops, disk_failed,
  gz_out, gz_crc, original, phase, zdata, cursor, gstate, crc_read, filled, size, restored,
  gz_error,
  io_side, taken_in, io_buffer_, position_, output, rcall, accepted, wbuffer_, written_out,
  wcall, io_calls, lost_on_destroy,
  algorithm, hash_, buffer_, buffer_size_, num_bytes_, message,
  octets, symbols, plain,
  bytes, points, units,
  side, entry_of, hash_index_, active_count_, total_bytes_, living, handle_of, chunks_,
  entries_, views,
  data_, len_, pos_, frozen, puts, nread, wire,
  current, path, only_positional, values_, sources_, lists_, positionals_, outcome, argc, given,
  values, spc, temp, target, held_at_save, committed, nsaves, nsets,
  tree, fpc, file_ops, others, destroyed, copied, pattern, subject,
  void_value, slot, alive, meant, intact, option, held, terminated

MCTexts == {<<"a">>, <<"L", "C">>}

\* An application with two subcommands, one of which was built wrongly.
MCKinds == [verbose |-> "flag", out |-> "string", jobs |-> "int", define |-> "list",
            dump |-> "optional"]
MCNoDefaults == [n \in DOMAIN MCKinds |-> "none"]
MCCommands ==
  [app |-> [args |-> {"verbose", "out", "jobs", "dump"}, required |-> {}, positional |-> FALSE,
            mutex |-> {[names |-> {"out", "dump"}, required |-> FALSE]},
            default |-> [MCNoDefaults EXCEPT !["out"] = "x"],
            subs |-> {"build", "broken"}, valid |-> TRUE],
   build |-> [args |-> {"verbose", "out", "define"}, required |-> {"define"},
            positional |-> TRUE, mutex |-> {[names |-> {"verbose", "out"}, required |-> TRUE]},
            default |-> [MCNoDefaults EXCEPT !["out"] = "1"], subs |-> {}, valid |-> TRUE],
   broken |-> [args |-> {"out"}, required |-> {}, positional |-> FALSE, mutex |-> {},
            default |-> MCNoDefaults, subs |-> {}, valid |-> FALSE]]
MCInitials == [MCNoDefaults EXCEPT !["jobs"] = "1", !["define"] = "x"]

jsonVars == <<trailing, read, jplace, stack_, lexeme, high, root_>>
tomlVars == <<state, nlines, section, owner>>
scalarVars == <<text, number, datetime>>
yamlVars == <<lines_, document_, yaml_plain>>
xmlVars == <<parser, npieces>>
iniVars == <<raw, records_, values_of, edits>>
csvVars == <<csv, trim_unquoted_space>>
zipVars == <<out, opened, archive, ops, disk_failed>>
gzipVars == <<gz_out, gz_crc, original, phase, zdata, cursor, gstate, crc_read, filled, size,
  restored, gz_error>>
ioVars == <<io_side, taken_in, io_buffer_, position_, output, rcall, accepted, wbuffer_,
  written_out, wcall, io_calls, lost_on_destroy>>
digestVars == <<algorithm, hash_, buffer_, buffer_size_, num_bytes_, message>>
codecVars == <<octets, symbols, plain>>
textVars == <<bytes, points, units>>
stringsVars == <<side, entry_of, hash_index_, active_count_, total_bytes_, living, handle_of,
  chunks_, entries_, views>>
bytesVars == <<data_, len_, pos_, frozen, puts, nread, wire>>
optVars == <<current, path, only_positional, values_, sources_, lists_, positionals_, outcome,
  argc, given>>
kvVars == <<values, spc, temp, target, held_at_save, committed, nsaves, nsets>>
filesVars == <<tree, fpc, file_ops, others, destroyed, copied, pattern, subject>>
resultVars == <<void_value, slot, alive, meant, intact, option, held, terminated>>

Js == INSTANCE Json WITH MaxUnits <- MaxJson
To == INSTANCE Toml
Ya == INSTANCE Yaml WITH MaxPlain <- MaxYamlPlain, plain <- yaml_plain
Xm == INSTANCE Xml
In == INSTANCE Ini
Zi == INSTANCE Zip
Bi == INSTANCE BufferedIo WITH side <- io_side, buffer_ <- io_buffer_
Co == INSTANCE Codec
Tx == INSTANCE Text
St == INSTANCE StringPool WITH Texts <- MCTexts
By == INSTANCE ByteBuffer
Oa == INSTANCE Opt WITH Root <- "app", Command <- MCCommands, Kind <- MCKinds, Initials <-
  MCInitials
Fi == INSTANCE Files
Re == INSTANCE Result WITH living <- alive, given <- meant, value_ <- option,
  Results <- ResultObjects, Options <- OptionObjects, Values <- Contained

\* The component that is checked moves, the others stay as they began.
Init ==
  /\ part \in {"json", "toml", "scalar", "yaml", "xml", "ini", "csv", "zip", "gzip", "io",
              "digest", "codec", "text", "strings", "bytes", "opt", "kv", "files",
              "result"}
  /\ To!Init /\ Ya!Init /\ Xm!Init /\ In!Init /\ Zi!Init /\ Zi!GzipInit /\ Co!Init /\ Tx!Init
     /\ By!Init /\ Oa!Init /\ Fi!KvInit
  /\ Js!Init /\ (part # "json" => ~trailing)
  /\ To!ScalarInit /\ (part # "scalar" => datetime = CHOOSE d \in To!Datetimes : TRUE)
  /\ In!CsvInit /\ (part # "csv" => trim_unquoted_space)
  /\ Bi!Init /\ (part # "io" => io_side = "reader")
  /\ Co!DigestInit /\ (part # "digest" => algorithm = "MD5")
  /\ St!Init /\ (part # "strings" => side = "pool")
  /\ Fi!Init /\ (part # "files" => tree = Fi!Empty)
  /\ Re!Init /\ (part # "result" => void_value)

\* What stays as it is while a component moves.
Rest(moving) ==
  /\ UNCHANGED part
  /\ IF moving = "json" THEN TRUE ELSE UNCHANGED jsonVars
  /\ IF moving = "toml" THEN TRUE ELSE UNCHANGED tomlVars
  /\ IF moving = "scalar" THEN TRUE ELSE UNCHANGED scalarVars
  /\ IF moving = "yaml" THEN TRUE ELSE UNCHANGED yamlVars
  /\ IF moving = "xml" THEN TRUE ELSE UNCHANGED xmlVars
  /\ IF moving = "ini" THEN TRUE ELSE UNCHANGED iniVars
  /\ IF moving = "csv" THEN TRUE ELSE UNCHANGED csvVars
  /\ IF moving = "zip" THEN TRUE ELSE UNCHANGED zipVars
  /\ IF moving = "gzip" THEN TRUE ELSE UNCHANGED gzipVars
  /\ IF moving = "io" THEN TRUE ELSE UNCHANGED ioVars
  /\ IF moving = "digest" THEN TRUE ELSE UNCHANGED digestVars
  /\ IF moving = "codec" THEN TRUE ELSE UNCHANGED codecVars
  /\ IF moving = "text" THEN TRUE ELSE UNCHANGED textVars
  /\ IF moving = "strings" THEN TRUE ELSE UNCHANGED stringsVars
  /\ IF moving = "bytes" THEN TRUE ELSE UNCHANGED bytesVars
  /\ IF moving = "opt" THEN TRUE ELSE UNCHANGED optVars
  /\ IF moving = "kv" THEN TRUE ELSE UNCHANGED kvVars
  /\ IF moving = "files" THEN TRUE ELSE UNCHANGED filesVars
  /\ IF moving = "result" THEN TRUE ELSE UNCHANGED resultVars

Next ==
  \/ part = "json" /\ Js!Next /\ Rest("json")
  \/ part = "toml" /\ To!Next /\ Rest("toml")
  \/ part = "scalar" /\ To!ScalarNext /\ Rest("scalar")
  \/ part = "yaml" /\ Ya!Next /\ Rest("yaml")
  \/ part = "xml" /\ Xm!Next /\ Rest("xml")
  \/ part = "ini" /\ In!Next /\ Rest("ini")
  \/ part = "csv" /\ In!CsvNext /\ Rest("csv")
  \/ part = "zip" /\ Zi!Next /\ Rest("zip")
  \/ part = "gzip" /\ Zi!GzipNext /\ Rest("gzip")
  \/ part = "io" /\ Bi!Next /\ Rest("io")
  \/ part = "digest" /\ Co!DigestNext /\ Rest("digest")
  \/ part = "codec" /\ Co!Next /\ Rest("codec")
  \/ part = "text" /\ Tx!Next /\ Rest("text")
  \/ part = "strings" /\ St!Next /\ Rest("strings")
  \/ part = "bytes" /\ By!Next /\ Rest("bytes")
  \/ part = "opt" /\ Oa!Next /\ Rest("opt")
  \/ part = "kv" /\ Fi!KvNext /\ Rest("kv")
  \/ part = "files" /\ Fi!Next /\ Rest("files")
  \/ part = "result" /\ Re!Next /\ Rest("result")

vars == <<part, jsonVars, tomlVars, scalarVars, yamlVars, xmlVars, iniVars, csvVars,
          zipVars, gzipVars, ioVars, digestVars, codecVars, textVars, stringsVars,
          bytesVars, optVars, kvVars, filesVars, resultVars>>
Spec == Init /\ [][Next]_vars
-----------------------------------------------------------------------------
\* A document that is read is the one its text says, and what is written of it
\* reads back as the same (json, toml, yaml, xml, ini, csv).
DocumentsReadBack ==
  /\ part = "json" => Js!JsonSound
  /\ part = "toml" => To!TomlSound
  /\ part = "scalar" => To!TomlScalarSound
  /\ part = "yaml" => Ya!YamlSound
  /\ part = "xml" => Xm!XmlSound
  /\ part = "ini" => In!IniSound
  /\ part = "csv" => In!CsvSound

\* Bytes survive archives, compression, buffers, digests, ciphers, encodings and
\* conversions, and an interned string lives as long as a handle or view of it
\* (zip, io, crypto, str, core/bytes).
BytesSurvive ==
  /\ part = "zip" => Zi!ZipSound
  /\ part = "gzip" => Zi!GzipSound
  /\ part = "io" => Bi!BufferedIoSound
  /\ part = "digest" => Co!DigestSound
  /\ part = "codec" => Co!CodecSound
  /\ part = "text" => Tx!TextSound
  /\ part = "strings" => St!StringPoolSound
  /\ part = "bytes" => By!ByteBufferSound

\* Arguments are bound by precedence and within their constraints (opt), a saved
\* store is the one before or the one after (fs/kv_store), and file operations
\* lose nothing on their own (fs/file_util); a Result or Option holds what it was
\* given, in storage that is never used in the wrong state (core/result, core/option).
StoresAreSound ==
  /\ part = "opt" => Oa!OptSound
  /\ part = "kv" => Fi!KvStoreSound
  /\ part = "files" => Fi!FilesSound
  /\ part = "result" => Re!ResultSound
=============================================================================
