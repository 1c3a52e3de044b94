--------------------------- MODULE LanguageChain ---------------------------
(***************************************************************************)
(* Which languages a bundle of providers serves: the registry of language  *)
(* codes and the check of a chain (providers/language.py), the voices of   *)
(* the two synthesisers (providers/tts) and the voice that the pipeline    *)
(* asks for (_voice_for of runtime/pipeline_orchestrator.py).  Pure        *)
(* operators; a voice is an id with the language the provider says it has. *)
(***************************************************************************)

\* The registry.  "kor_Hang" stands for all its languages that no voice has.
Registry == {"cmn_Hans", "eng_Latn", "jpn_Jpan", "kor_Hang"}

\* Registry languages, and one that is in none of the tables.
Languages == Registry \cup {"zz_Zzzx"}

\* A code as a client sends it may have space before or after it.
Paddings == {"none", "before", "after"}
Asked == [code : Languages, padding : Paddings]

\* resolve looks up what strip leaves of a code.
Strip(asked) == asked.code

\* _voice_language guesses one of these from the name of a Piper voice.
VoiceLanguages == {"cmn_Hans", "eng_Latn", "jpn_Jpan"}

MockVoices == {[id |-> "mock-cmn", language |-> "cmn_Hans"],
               [id |-> "mock-eng", language |-> "eng_Latn"]}

\* One voice for every language of the voice directory.
PiperVoices(dir) == [id : {"piper"}, language : dir]

Recognised(asked) == Strip(asked) \in Registry

Speaks(voices, asked) == \E v \in voices : v.language = Strip(asked)

\* Mutant of Missing: the voices of the target are not looked at.
MissingButVoices(source, target, voices) ==
    [part : {"asr", "translate"}, language : {x \in {source} : ~Recognised(x)}]
        \cup [part : {"translate"}, language : {x \in {target} : ~Recognised(x)}]

\* What chain_check names as missing, by the codes as they were sent, when it is
\* given the voices.
Missing(source, target, voices) ==
    [part : {"asr", "translate"}, language : {x \in {source} : ~Recognised(x)}]
        \cup [part : {"translate"}, language : {x \in {target} : ~Recognised(x)}]
        \cup [part : {"tts"}, language : {x \in {target} : ~Speaks(voices, x)}]

\* What it calls complete: whether the target can be translated is not asked.
Complete(source, target, voices) ==
    Recognised(source) /\ Speaks(voices, target)

\* _voice_for: the names of the mock voices, whatever synthesiser is in use,
\* by how the code that the session was started with begins.
VoiceFor(asked) ==
    IF Strip(asked) = "cmn_Hans" /\ asked.padding # "before" THEN "mock-cmn" ELSE "mock-eng"
=============================================================================
