---------------------------- MODULE ProtocolFiles ----------------------------
(***************************************************************************)
(* The protocol files of ARINC 615A as they are written and read           *)
(* (src/lib/arinc_615a/files), and the FIND packets, which are encoded in  *)
(* a similar way (src/lib/arinc_615a/find/packets).                        *)
(*                                                                         *)
(* A file is a sequence of bytes.  Its content is the tuple of its fields  *)
(* in the order of the file; a list is a tuple of its entries.  Writing is *)
(* concatenation.  What reads a field is a function of the bytes that are  *)
(* left: it gives the value and what is left behind it, or the refusal     *)
(* that is an exception in the code and ends the decoding.                 *)
(***************************************************************************)
EXTENDS Integers, Sequences, SequencesExt, FiniteSets

Byte == 0 .. 255

Bytes == Seq(Byte)

(* The numbers of sixteen bits, unsigned and signed.                       *)
Word == 65536

Count == 0 .. Word - 1

Short == -(Word \div 2) .. (Word \div 2) - 1

Percent == 0 .. 100

HeaderSize == 6

(* Arinc615a2 and Arinc615a34; no other version is read.                   *)
Versions == {16691, 16692}

StatusCodes == {1, 2, 3, 4, 4096, 4098, 4099, 4100, 4101, 4103}

AcceptanceCodes == {1, 4096, 4098}

Kinds == {"Initialization", "InformationStatus", "LoadConfigurationList",
          "UploadStatus", "UploadRequest", "DownloadStatus", "DownloadList",
          "DownloadRequest", "DownloadAnswer", "FindPacket"}

-----------------------------------------------------------------------------
(* Writing.                                                                *)

(* Sixteen bits of a number, in two's complement if it is negative.        *)
U16(n) == <<(n \div 256) % 256, n % 256>>

U32(n) == U16(n \div Word) \o U16(n)

TextFits(s) == s = <<>> \/ Len(s) + 1 < 255

Text(s) == IF s = <<>> THEN <<0>> ELSE <<Len(s) + 1>> \o s \o <<0>>

(* Three characters, right aligned: "{:3}".                                *)
RatioText(n) ==
  <<IF n >= 100 THEN 48 + n \div 100 ELSE 32,
    IF n >= 10 THEN 48 + ((n \div 10) % 10) ELSE 32,
    48 + (n % 10)>>

(* A count and the entries.                                                *)
Listed(entries) == U16(Len(entries)) \o FlattenSeq(entries)

(* The header counts itself.                                               *)
InsertHeader(version, body) ==
  U32(HeaderSize + Len(body)) \o U16(version) \o body

(* Status code, description.                                               *)
EncodeInitialization(c) == FlattenSeq(<<U16(c[1]), Text(c[2])>>)

(* Counter, status code, exception timer, estimated time, description.     *)
EncodeInformationStatus(c) ==
  FlattenSeq(<<U16(c[1]), U16(c[2]), U16(c[3]), U16(c[4]), Text(c[5])>>)

(* Part number, amendment, designation.                                    *)
EncodePartNumber(p) == FlattenSeq(<<Text(p[1]), Text(p[2]), Text(p[3])>>)

(* Literal name, serial number, part numbers.                              *)
EncodeHardware(h) ==
  FlattenSeq(<<Text(h[1]), Text(h[2]),
               Listed([i \in DOMAIN h[3] |-> EncodePartNumber(h[3][i])])>>)

EncodeLoadConfigurationList(c) ==
  Listed([i \in DOMAIN c[1] |-> EncodeHardware(c[1][i])])

(* Header filename, part number, ratio, status code, description.          *)
EncodeLoadStatus(l) ==
  FlattenSeq(<<Text(l[1]), Text(l[2]), RatioText(l[3]), U16(l[4]), Text(l[5])>>)

(* A variant that writes the counter after the exception timer.            *)
EncodeUploadStatusSwapped(c) ==
  FlattenSeq(<<U16(c[1]), Text(c[2]), U16(c[4]), U16(c[3]), U16(c[5]),
               RatioText(c[6]),
               Listed([i \in DOMAIN c[7] |-> EncodeLoadStatus(c[7][i])])>>)

(* Status code, description, counter, exception timer, estimated time,     *)
(* ratio of the list, loads.                                               *)
EncodeUploadStatus(c) ==
  FlattenSeq(<<U16(c[1]), Text(c[2]), U16(c[3]), U16(c[4]), U16(c[5]),
               RatioText(c[6]),
               Listed([i \in DOMAIN c[7] |-> EncodeLoadStatus(c[7][i])])>>)

(* Filename, status code, description.                                     *)
EncodeFileStatus(f) == FlattenSeq(<<Text(f[1]), U16(f[2]), Text(f[3])>>)

(* The same fields, files.                                                 *)
EncodeDownloadStatus(c) ==
  FlattenSeq(<<U16(c[1]), Text(c[2]), U16(c[3]), U16(c[4]), U16(c[5]),
               RatioText(c[6]),
               Listed([i \in DOMAIN c[7] |-> EncodeFileStatus(c[7][i])])>>)

(* Header filename and part number, or filename and description.           *)
EncodePair(e) == FlattenSeq(<<Text(e[1]), Text(e[2])>>)

(* Loads.                                                                  *)
EncodeUploadRequest(c) == Listed([i \in DOMAIN c[1] |-> EncodePair(c[1][i])])

(* Files.                                                                  *)
EncodeDownloadList(c) == Listed([i \in DOMAIN c[1] |-> EncodePair(c[1][i])])

(* Filenames, user defined data.                                           *)
EncodeDownloadRequest(c) ==
  FlattenSeq(<<Listed([i \in DOMAIN c[1] |-> Text(c[1][i])]),
               <<Len(c[2])>> \o c[2]>>)

(* Filenames.                                                              *)
EncodeDownloadAnswer(c) == Listed([i \in DOMAIN c[1] |-> Text(c[1][i])])

PacketTerminator == 16

Terminated(s) == Append(s, 0)

(* Opcode, parameters, each with its terminator; the packet has one too.   *)
EncodeFindPacket(c) ==
  U16(c[1]) \o
  FlattenSeq([i \in DOMAIN c[2] |-> Terminated(c[2][i])]) \o
  <<PacketTerminator>>

Body(kind, c) ==
  CASE kind = "Initialization"        -> EncodeInitialization(c)
    [] kind = "InformationStatus"     -> EncodeInformationStatus(c)
    [] kind = "LoadConfigurationList" -> EncodeLoadConfigurationList(c)
    [] kind = "UploadStatus"          -> EncodeUploadStatus(c)
    [] kind = "UploadRequest"         -> EncodeUploadRequest(c)
    [] kind = "DownloadStatus"        -> EncodeDownloadStatus(c)
    [] kind = "DownloadList"          -> EncodeDownloadList(c)
    [] kind = "DownloadRequest"       -> EncodeDownloadRequest(c)
    [] kind = "DownloadAnswer"        -> EncodeDownloadAnswer(c)

(* The strings that encode() has to write.                                 *)
Texts(kind, c) ==
  CASE kind = "Initialization"    -> {c[2]}
    [] kind = "InformationStatus" -> {c[5]}
    [] kind = "LoadConfigurationList" ->
         UNION {{h[1], h[2]} \cup UNION {{p[1], p[2], p[3]} : p \in ToSet(h[3])}
                : h \in ToSet(c[1])}
    [] kind = "UploadStatus" ->
         {c[2]} \cup UNION {{l[1], l[2], l[5]} : l \in ToSet(c[7])}
    [] kind = "DownloadStatus" ->
         {c[2]} \cup UNION {{f[1], f[3]} : f \in ToSet(c[7])}
    [] kind \in {"UploadRequest", "DownloadList"} ->
         UNION {{e[1], e[2]} : e \in ToSet(c[1])}
    [] kind \in {"DownloadRequest", "DownloadAnswer"} -> ToSet(c[1])
    [] OTHER -> {}

(* The lists that encode() has to count.                                   *)
Lists(kind, c) ==
  CASE kind \in {"UploadStatus", "DownloadStatus"} -> {c[7]}
    [] kind = "LoadConfigurationList" ->
         {c[1]} \cup {h[3] : h \in ToSet(c[1])}
    [] kind \in {"UploadRequest", "DownloadList", "DownloadRequest",
                 "DownloadAnswer"} -> {c[1]}
    [] OTHER -> {}

(* encode() throws for a string that is too long, for a list of more       *)
(* entries than its count can tell, and for user defined data of more than *)
(* 255 bytes.                                                              *)
Encodable(kind, c) ==
  /\ \A s \in Texts(kind, c) : TextFits(s)
  /\ \A list \in Lists(kind, c) : Len(list) < Word
  /\ kind = "DownloadRequest" => Len(c[2]) <= 255

Encode(kind, version, c) ==
  IF kind = "FindPacket" THEN EncodeFindPacket(c)
  ELSE InsertHeader(version, Body(kind, c))

-----------------------------------------------------------------------------
(* Reading.                                                                *)

(* A value was read, and this is left.                                     *)
Got(value, rest) == [ok |-> TRUE, value |-> value, rest |-> rest]

(* An exception.                                                           *)
Refusal == [ok |-> FALSE, value |-> <<>>, rest |-> <<>>]

Behind(b, n) == SubSeq(b, n + 1, Len(b))

(* Two bytes, the most significant one first.                              *)
Number(b) == 256 * b[1] + b[2]

NumberField ==
  [b \in Bytes |->
     IF Len(b) < 2 THEN Refusal ELSE Got(Number(b), Behind(b, 2))]

(* A variant that reads the number unsigned.                               *)
SignedFieldPlain == NumberField

SignedField ==
  [b \in Bytes |->
     IF Len(b) < 2 THEN Refusal
     ELSE Got(IF Number(b) \in Short THEN Number(b) ELSE Number(b) - Word,
              Behind(b, 2))]

(* statusCode() and operationAcceptanceStatusCode() of what is read.       *)
CodeField(codes) ==
  [b \in Bytes |->
     IF Len(b) < 2 \/ Number(b) \notin codes THEN Refusal
     ELSE Got(Number(b), Behind(b, 2))]

(* The longest prefix with characters of a set.                            *)
Leading(b, chars) ==
  LET others == {i \in 1 .. Len(b) : b[i] \notin chars}
  IN  IF others = {} THEN b ELSE SubSeq(b, 1, Min(others) - 1)

Chars == 1 .. 255

(* The string ends at its first terminator; all its bytes are consumed.    *)
TextField ==
  [b \in Bytes |->
     IF b = <<>> \/ Len(b) <= b[1] THEN Refusal
     ELSE LET raw == SubSeq(b, 2, b[1] + 1)
          IN  IF raw # <<>> /\ 0 \notin ToSet(raw) THEN Refusal
              ELSE Got(Leading(raw, Chars), Behind(b, b[1] + 1))]

Blanks == {32} \cup 9 .. 13

Digits == 48 .. 57

Signs == {43, 45}

(* The number that up to three digits denote.                              *)
Decimal(d) ==
  CASE Len(d) = 1 -> d[1] - 48
    [] Len(d) = 2 -> 10 * (d[1] - 48) + d[2] - 48
    [] Len(d) = 3 -> 100 * (d[1] - 48) + 10 * (d[2] - 48) + d[3] - 48

Unblanked(chars) == Behind(chars, Len(Leading(chars, Blanks)))

LeadingDigits(word) ==
  Leading(IF word # <<>> /\ word[1] \in Signs THEN Tail(word) ELSE word, Digits)

(* A variant that allows any number of percent.                            *)
RatioFieldUnlimited ==
  [b \in Bytes |->
     IF Len(b) < 3 THEN Refusal
     ELSE LET digits == LeadingDigits(Unblanked(SubSeq(b, 1, 3)))
          IN  IF digits = <<>> THEN Refusal
              ELSE Got(Decimal(digits), Behind(b, 3))]

(* stoul() of three characters: blanks, a sign, digits and anything behind *)
(* them.  A negative number wraps to one far above 100.                    *)
RatioField ==
  [b \in Bytes |->
     IF Len(b) < 3 THEN Refusal
     ELSE LET word   == Unblanked(SubSeq(b, 1, 3))
              digits == LeadingDigits(word)
              n      == Decimal(digits)
          IN  IF \/ digits = <<>>
                 \/ n \notin Percent
                 \/ word[1] = 45 /\ n # 0
              THEN Refusal ELSE Got(n, Behind(b, 3))]

(* The value read first, and behind it those that others reads of the rest.*)
(* An exception leaves the rest unread.                                    *)
Followed(first, others) ==
  IF ~first.ok THEN Refusal
  ELSE LET then == others[first.rest]
       IN  IF ~then.ok THEN Refusal
           ELSE Got(<<first.value>> \o then.value, then.rest)

(* Fields one behind the other: from[i] reads those from the i-th on.      *)
InOrder(fields) ==
  LET from[i \in 1 .. Len(fields) + 1] ==
        [b \in Bytes |->
           IF i > Len(fields) THEN Got(<<>>, b)
           ELSE Followed(fields[i][b], from[i + 1])]
  IN  from[1]

(* A count and as many entries.                                            *)
ListOf(entry) ==
  [b \in Bytes |->
     IF Len(b) < 2 THEN Refusal
     ELSE InOrder([i \in 1 .. Number(b) |-> entry])[Behind(b, 2)]]

(* The user defined data is all that is left, and its length must say so.  *)
UserDefinedDataField ==
  [b \in Bytes |->
     IF b = <<>> \/ b[1] # Len(b) - 1 THEN Refusal ELSE Got(Tail(b), <<>>)]

(* What decode() reads behind the header of each file.                     *)
InitializationFields == InOrder(<<CodeField(AcceptanceCodes), TextField>>)

InformationStatusFields ==
  InOrder(<<NumberField, CodeField(StatusCodes), NumberField, SignedField,
            TextField>>)

PartNumberFields == InOrder(<<TextField, TextField, TextField>>)

HardwareFields == InOrder(<<TextField, TextField, ListOf(PartNumberFields)>>)

LoadConfigurationListFields == InOrder(<<ListOf(HardwareFields)>>)

LoadStatusFields ==
  InOrder(<<TextField, TextField, RatioField, CodeField(StatusCodes),
            TextField>>)

UploadStatusFields ==
  InOrder(<<CodeField(StatusCodes), TextField, NumberField, NumberField,
            SignedField, RatioField, ListOf(LoadStatusFields)>>)

FileStatusFields == InOrder(<<TextField, CodeField(StatusCodes), TextField>>)

DownloadStatusFields ==
  InOrder(<<CodeField(StatusCodes), TextField, NumberField, NumberField,
            SignedField, RatioField, ListOf(FileStatusFields)>>)

PairFields == InOrder(<<TextField, TextField>>)

UploadRequestFields == InOrder(<<ListOf(PairFields)>>)

DownloadListFields == InOrder(<<ListOf(PairFields)>>)

DownloadRequestFields ==
  InOrder(<<ListOf(TextField), UserDefinedDataField>>)

DownloadAnswerFields == InOrder(<<ListOf(TextField)>>)

Fields(kind) ==
  CASE kind = "Initialization"        -> InitializationFields
    [] kind = "InformationStatus"     -> InformationStatusFields
    [] kind = "LoadConfigurationList" -> LoadConfigurationListFields
    [] kind = "UploadStatus"          -> UploadStatusFields
    [] kind = "UploadRequest"         -> UploadRequestFields
    [] kind = "DownloadStatus"        -> DownloadStatusFields
    [] kind = "DownloadList"          -> DownloadListFields
    [] kind = "DownloadRequest"       -> DownloadRequestFields
    [] kind = "DownloadAnswer"        -> DownloadAnswerFields

(* The size that decode() asks for first.                                  *)
MinimumSize(kind) ==
  HeaderSize +
  CASE kind = "Initialization" -> 3
    [] kind \in {"InformationStatus", "UploadStatus", "DownloadStatus"} -> 9
    [] kind = "LoadConfigurationList" -> 13
    [] kind = "DownloadRequest" -> 3
    [] OTHER -> 2

(* The length of a file that 32 bits cannot tell.                          *)
TooLarge(size) == size \div Word \notin Count

HeaderAccepted(b) ==
  /\ Len(b) >= HeaderSize
  /\ ~TooLarge(Len(b)) /\ SubSeq(b, 1, 4) = U32(Len(b))
  /\ Number(SubSeq(b, 5, 6)) \in Versions

(* A string of a packet, up to its terminator.                             *)
TerminatedField ==
  [b \in Bytes |->
     IF 0 \notin ToSet(b) THEN Refusal
     ELSE LET s == Leading(b, Chars) IN Got(s, Behind(b, Len(s) + 1))]

(* As many strings as there are terminators.                               *)
Parameters(b) ==
  InOrder([i \in 1 .. Cardinality({j \in DOMAIN b : b[j] = 0})
             |-> TerminatedField])[b]

(* The packet ends with its terminator and the last parameter with its     *)
(* own; there is at least one parameter.                                   *)
DecodeFindPacket(b) ==
  IF \/ Len(b) <= 3
     \/ b[Len(b)] # PacketTerminator
     \/ Number(b) \notin {1, 2}
     \/ b[Len(b) - 1] # 0
  THEN Refusal
  ELSE LET r == Parameters(SubSeq(b, 3, Len(b) - 1))
       IN  Got(<<Number(b), r.value>>, r.rest)

(* A variant that overlooks what stands behind the last field.             *)
DecodeWithRest(kind, b) ==
  IF kind = "FindPacket" THEN DecodeFindPacket(b)
  ELSE IF Len(b) < MinimumSize(kind) \/ ~HeaderAccepted(b) THEN Refusal
       ELSE Fields(kind)[Behind(b, HeaderSize)]

(* decode(): nothing may be left behind the last field.                    *)
Decode(kind, b) ==
  IF kind = "FindPacket" THEN DecodeFindPacket(b)
  ELSE IF Len(b) < MinimumSize(kind) \/ ~HeaderAccepted(b) THEN Refusal
       ELSE LET r == Fields(kind)[Behind(b, HeaderSize)]
            IN  IF r.ok /\ r.rest = <<>> THEN r ELSE Refusal

(* The files whose lists decode() extends instead of replacing them.       *)
Extending == {"LoadConfigurationList", "UploadRequest", "DownloadList",
              "DownloadRequest", "DownloadAnswer", "FindPacket"}
=============================================================================
