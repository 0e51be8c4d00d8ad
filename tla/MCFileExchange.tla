--------------------------- MODULE MCFileExchange ---------------------------
(* Contents for model checking FileExchange: empty, short and longest      *)
(* strings, empty and two-element lists, numbers at the ends of their      *)
(* ranges.                                                                 *)
EXTENDS FileExchange

Longest == [i \in 1 .. 253 |-> 90]

TooLong == [i \in 1 .. 254 |-> 90]

TooMuch == [i \in 1 .. 256 |-> i - 1]

A == <<65>>

AB == <<65, 66>>

Load == <<AB, A, 100, 3, <<>>>>

FailedLoad == <<A, <<>>, 7, 4103, AB>>

MCContents ==
  [k \in Kinds |->
    CASE k = "Initialization" ->
           {<<1, <<>>>>, <<4096, AB>>, <<65534, A>>, <<4098, Longest>>,
            <<4096, TooLong>>}
      [] k = "InformationStatus" ->
           {<<0, 1, 0, 0, <<>>>>, <<65535, 4, 13, -1, AB>>,
            <<258, 4099, 2, 32767, A>>}
      [] k = "LoadConfigurationList" ->
           {<<<<>>>>, <<<<<<AB, A, <<>>>>>>>>,
            <<<<<<AB, A, <<<<A, <<>>, AB>>, <<A, A, A>>>>>>>>>>,
            <<<<<<AB, A, <<>>>>, <<A, AB, <<<<A, A, <<>>>>>>>>>>>>}
      [] k = "UploadStatus" ->
           {<<1, <<>>, 1, 13, 0, 0, <<>>>>,
            <<2, A, 65535, 0, -2, 42, <<Load, FailedLoad>>>>}
      [] k = "UploadRequest" ->
           {<<<<>>>>, <<<<<<A, AB>>>>>>, <<<<<<AB, A>>, <<A, <<>>>>>>>>}
      [] k = "DownloadStatus" ->
           {<<3, <<>>, 256, 13, 0, 100, <<>>>>,
            <<4, AB, 7, 0, -32768, 5, <<<<A, 3, <<>>>>, <<AB, 4103, A>>>>>>}
      [] k = "DownloadList" ->
           {<<<<>>>>, <<<<<<A, AB>>, <<AB, <<>>>>>>>>}
      [] k = "DownloadRequest" ->
           {<<<<>>, <<>>>>, <<<<A, AB>>, <<7, 0>>>>, <<<<A>>, TooMuch>>}
      [] k = "DownloadAnswer" ->
           {<<<<>>>>, <<<<AB, A>>>>}
      [] k = "FindPacket" ->
           {<<1, <<<<>>>>>>, <<2, <<AB, <<>>, A>>>>}]

MCDamageBytes == {0, 1, 45, 53, 255}
=============================================================================
