--------------------------- MODULE MCModelManager ---------------------------
(***************************************************************************)
(* Two roles, one whose folder is looked into and one whose folder is not, *)
(* on a disk where a load of each may succeed, fail in every way or raise; *)
(* and threads that load, use and list the providers or check a chain of   *)
(* languages: one that only the mock speaks, one that only the installed   *)
(* voice speaks, and one whose source is in no table; two of the codes     *)
(* have space around them.                                                 *)
(***************************************************************************)
EXTENDS SessionChecks

Order == <<"asr", "tts">>

FoundDisks == [asr : {"folder", "bare", "corrupt", "unreadable"},
               tts : {"nothing", "corrupt", "unreadable"}]

Plain(code) == [code |-> code, padding |-> "none"]

AskedPairs == {<<Plain("cmn_Hans"), Plain("eng_Latn")>>,
               <<Plain("eng_Latn"), [code |-> "jpn_Jpan", padding |-> "before"]>>,
               <<[code |-> "zz_Zzzx", padding |-> "after"], Plain("eng_Latn")>>}

Installed == {{"jpn_Jpan"}}
=============================================================================
