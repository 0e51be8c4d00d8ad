---------------------------- MODULE FileExchange ----------------------------
(***************************************************************************)
(* A writer, a line that may damage what it carries, and a reader, for     *)
(* every kind of protocol file (src/lib/arinc_615a/files) and for the FIND *)
(* packets.  The damage stands for a peer of another make, too: a file may *)
(* be cut or extended and yet carry a length field that fits.  The reader  *)
(* makes a new object of the file or assigns it to the object of the file  *)
(* before it (operator=).                                                  *)
(***************************************************************************)
EXTENDS ProtocolFiles

CONSTANTS
  Contents,       \* the contents written, per kind
  DamageBytes,    \* bytes that a damage puts in place of another
  MaxFiles,       \* bound: files written
  MaxDamages      \* bound: damages to a file

ASSUME ExchangeBoundsAssumption == MaxFiles \in Nat /\ MaxDamages \in Nat

ASSUME DamageBytesAssumption == DamageBytes \subseteq Byte

(* What the classes of the files can hold: numbers of their width, ratios  *)
(* up to 100 percent, codes of their enumeration and the strings of S.  No *)
(* string has a terminator in it.                                          *)
Strings == Seq(Chars)

Pairs(S) == S \X S

PartNumbers(S) == S \X S \X S

Hardware(S) == S \X S \X Seq(PartNumbers(S))

LoadStatuses(S) == S \X S \X Percent \X StatusCodes \X S

FileStatuses(S) == S \X StatusCodes \X S

Status(S, Entries) ==
  StatusCodes \X S \X Count \X Count \X Short \X Percent \X Seq(Entries)

Alone(List) == [{1} -> Seq(List)]

Files(S) ==
  [Initialization        |-> Count \X S,
   InformationStatus     |-> Count \X StatusCodes \X Count \X Short \X S,
   LoadConfigurationList |-> Alone(Hardware(S)),
   UploadStatus          |-> Status(S, LoadStatuses(S)),
   UploadRequest         |-> Alone(Pairs(S)),
   DownloadStatus        |-> Status(S, FileStatuses(S)),
   DownloadList          |-> Alone(Pairs(S)),
   DownloadRequest       |-> Seq(S) \X Bytes,
   DownloadAnswer        |-> Alone(S),
   FindPacket            |-> {1, 2} \X (Seq(Strings) \ {<<>>})]

ASSUME ContentsAssumption ==
  /\ DOMAIN Contents = Kinds
  /\ \A k \in Kinds : \A c \in Contents[k] : c \in Files(Strings)[k]

VARIABLES
  phase,      \* how far the file has come
  kind,       \* its kind
  content,    \* what was written
  bytes,      \* the file as it is now
  damages,    \* what happened to it on its way
  object,     \* content of the object read, <<>> if there is none
  assigned,   \* "Assigned" if the object held an earlier file
  files       \* files written

vars == <<phase, kind, content, bytes, damages, object, assigned, files>>

Init ==
  /\ phase = "Idle"
  /\ kind \in Kinds
  /\ content = <<>>
  /\ bytes = <<>>
  /\ damages = <<>>
  /\ object = <<>>
  /\ assigned = "New"
  /\ files = 0

(* A first file, or one more for the object of a file that arrived as it   *)
(* was written: any other next file is like a first one.                   *)
Begin(c) ==
  /\ \/ phase = "Idle"
     \/ phase = "Read" /\ damages = <<>> /\ kind # "FindPacket"
  /\ files < MaxFiles
  /\ content' = c
  /\ damages' = <<>>
  /\ files' = files + 1
  /\ assigned' = IF object = <<>> THEN "New" ELSE "Assigned"
  /\ UNCHANGED <<kind, object>>

Write ==
  \E c \in Contents[kind] : \E version \in Versions :
    /\ Begin(c)
    /\ Encodable(kind, c)
    /\ bytes' = Encode(kind, version, c)
    /\ phase' = "Written"

(* encode() throws: there is no file.                                      *)
WriteFails ==
  \E c \in Contents[kind] :
    /\ Begin(c)
    /\ ~Encodable(kind, c)
    /\ bytes' = <<>>
    /\ phase' = "Unwritable"

(* The length field as a sender of the damaged file would have written it. *)
Relabelled(b) ==
  IF kind = "FindPacket" \/ Len(b) < HeaderSize THEN b
  ELSE U32(Len(b)) \o SubSeq(b, 5, Len(b))

Damage(what, b) ==
  /\ phase = "Written"
  /\ Len(damages) < MaxDamages
  /\ bytes' \in {b, Relabelled(b)}
  /\ damages' = Append(damages, what)
  /\ UNCHANGED <<phase, kind, content, object, assigned, files>>

Truncate == \E n \in 0 .. Len(bytes) - 1 : Damage("Cut", SubSeq(bytes, 1, n))

Extend == \E b \in DamageBytes : Damage("Extended", Append(bytes, b))

Alter ==
  \E i \in 1 .. Len(bytes), b \in DamageBytes :
    Damage("Altered", [bytes EXCEPT ![i] = b])

(* What an object holds after an assignment: some kinds extend their list. *)
Assigned(value) ==
  IF object = <<>> \/ kind \notin Extending THEN value
  ELSE [value EXCEPT ![1] = object[1] \o @]

Read ==
  LET r == Decode(kind, bytes)
  IN  /\ phase = "Written"
      /\ r.ok
      /\ phase' = "Read"
      /\ object' = Assigned(r.value)
      /\ UNCHANGED <<kind, content, bytes, damages, assigned, files>>

(* The exception leaves the constructor, so there is no object; an object  *)
(* that was assigned to holds a mixture and is given up.                   *)
Refuse ==
  /\ phase = "Written"
  /\ ~Decode(kind, bytes).ok
  /\ phase' = "Refused"
  /\ object' = <<>>
  /\ UNCHANGED <<kind, content, bytes, damages, assigned, files>>

Next ==
  \/ Write
  \/ WriteFails
  \/ Truncate
  \/ Extend
  \/ Alter
  \/ Read
  \/ Refuse

Spec == Init /\ [][Next]_vars

-----------------------------------------------------------------------------
(* What is written but never read: a load configuration list below the     *)
(* size that decode() asks for, an answer with a code that only the        *)
(* program itself uses (OperationDeferred), and a file of 4 GiB or more,   *)
(* which the length in the header cannot tell.                             *)
Unreadable(k, c) ==
  \/ k = "LoadConfigurationList" /\ HeaderSize + Len(Body(k, c)) < MinimumSize(k)
  \/ k = "Initialization" /\ c[1] \notin AcceptanceCodes
  \/ k # "FindPacket" /\ TooLarge(HeaderSize + Len(Body(k, c)))

(* The strings of a content that was read.                                 *)
Terminable(s) == 0 \notin ToSet(s) /\ Len(s) <= 254

(* Types, as far as the reader can get them wrong: whatever bytes arrive,  *)
(* an accepted status has a known code, ratios within 100 percent, a       *)
(* signed time within 16 bits and strings without terminators              *)
(* (statusCode(), Ratio_decode(), String_decode()).                        *)
AcceptedIsWellFormed ==
  phase = "Read" /\ assigned = "New" =>
    /\ \A s \in Texts(kind, object) : Terminable(s)
    /\ kind \in {"UploadStatus", "DownloadStatus"} =>
         /\ object[1] \in StatusCodes
         /\ object[3] \in Count
         /\ object[5] \in Short
         /\ object[6] \in Percent
    /\ kind = "UploadStatus" =>
         \A l \in ToSet(object[7]) : l[3] \in Percent /\ l[4] \in StatusCodes
    /\ kind = "DownloadStatus" =>
         \A f \in ToSet(object[7]) : f[2] \in StatusCodes
    /\ kind = "InformationStatus" =>
         object[2] \in StatusCodes /\ object[4] \in Short
    /\ kind = "Initialization" => object[1] \in AcceptanceCodes

(* A file that arrives as it was written is read, and read as what was     *)
(* written, also into an object that held another file; a list that is     *)
(* assigned to a list is appended to it.  Encoders and decoders are two    *)
(* separate pieces of code per file, with the fields in their own order    *)
(* and the numbers in their own width.                                     *)
ReadAsWritten ==
  damages = <<>> =>
    /\ phase = "Refused" => Unreadable(kind, content)
    /\ phase = "Read" =>
         IF assigned = "Assigned" /\ kind \in Extending
         THEN /\ IsSuffix(content[1], object[1])
              /\ Tail(object) = Tail(content)
         ELSE object = content

(* A file that was cut or extended is never accepted, whether or not its   *)
(* length field was adapted: counts, lengths and the check for more data   *)
(* behind the last field together leave no way to read it.                 *)
LengthsAreGuarded ==
  phase = "Read" => ~\E i \in DOMAIN damages : damages[i] \in {"Cut", "Extended"}

(* What was accepted, padding and blanks included, can be written again    *)
(* and is then read as the same content, so that a file that is passed on  *)
(* does not change.  The exceptions are strings of 254 characters, which   *)
(* are read but not written, and Unreadable.                               *)
AcceptedIsPreserved ==
  LET again == Decode(kind, Encode(kind, 16692, object))
  IN  phase = "Read" /\ Encodable(kind, object) /\ ~Unreadable(kind, object) =>
        again.ok /\ again.value = object
=============================================================================
