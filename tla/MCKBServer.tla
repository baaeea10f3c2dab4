----------------------------- MODULE MCKBServer -----------------------------
(***************************************************************************)
(* Small instances of KBServer.  Prompts, keys and answers are names; what *)
(* each stands for is a sequence of tokens, and the assumptions below      *)
(* check that Norm, Clean and the other tables are what the modules        *)
(* TextKeys and OutputGuard compute for them.                              *)
(***************************************************************************)
EXTENDS KBServer, TLC

K == INSTANCE TextKeys
G == INSTANCE OutputGuard

\* Connections are interchangeable.
Interchangeable == Permutations(Conns)

-----------------------------------------------------------------------------
(***************************************************************************)
(* Prompts and keys.                                                       *)
(***************************************************************************)

Typed        == {"What is tax?", "tax law", "hi", "Are you sure?"}
SmallTalk    == {"What is tax?", "hi"}
Challenges   == {"Are you sure?", NoText}
OneQuestion  == {"What is tax?"}
TwoQuestions == {"What is tax?", "tax law"}

MCTexts == Typed \cup {"tax", "are you sure", "socialism", "capitalism"}

\* What users and files spell out.
Spelling ==
     "What is tax?"  :> <<"what", " ", "is", " ", "tax", "?">>
  @@ "Are you sure?" :> <<"are", " ", "you", " ", "sure", "?">>
  @@ "are you sure"  :> <<"are", " ", "you", " ", "sure">>
  @@ "tax law"       :> <<"tax", " ", "law">>
  @@ [w \in {"tax", "hi", "socialism", "capitalism"} |-> <<w>>]

MCNorm == [t \in MCTexts |-> CASE t = "What is tax?"  -> "tax"
                               [] t = "Are you sure?" -> "are you sure"
                               [] OTHER -> t]

MCCasualKeys    == {"hi"}
MCChallengeKeys == {"are you sure"}

\* LIKE matches letters, so a key that is part of a word matches too; here no word
\* is part of another.
MCLike == {<<t, t>> : t \in MCTexts} \cup {<<"tax law", "tax">>, <<"What is tax?", "tax">>,
           <<"Are you sure?", "are you sure">>}

\* norm_key and the patterns are those of TextKeys; a question begins with a blank
\* once its prefix is gone, which strip() removes.
ASSUME KeyTables ==
  LET keys == {MCNorm[t] : t \in MCTexts}
  IN  \A t \in MCTexts :
        LET s == Spelling[t]
        IN  /\ Spelling[MCNorm[t]] = K!NormalizeKey(s)
            /\ t \in keys => (t \in MCCasualKeys <=> K!CasualKey(s))
            /\ t \in keys => (t \in MCChallengeKeys <=> K!IsChallenge(s))
            /\ \A u \in MCTexts : <<t, u>> \in MCLike <=> K!Occurs(Spelling[u], s)

-----------------------------------------------------------------------------
(***************************************************************************)
(* Answers.  The model says an answer after a preamble, or one word.       *)
(***************************************************************************)

MCAnswers == {"verbose", "mumble", "definition", "fallback"}
MCShort   == {"mumble"}

OneRaw      == {"verbose"}
ShortAnswer == {"mumble"}
OneAnswer   == {"definition"}

Wording ==
     "definition" :> <<"tax", " ", "is", " ", "dues", ".">>
  @@ "verbose"    :> <<"sure", ".", " ", "tax", " ", "is", " ", "dues">>
  @@ "mumble"     :> <<"dues">>
  @@ "fallback"   :> G!Fallback

MCClean == [a \in MCAnswers |-> CASE a = "verbose" -> "definition"
                                  [] a = "mumble"  -> "fallback"
                                  [] OTHER -> a]

ASSUME AnswerTables ==
  \A a \in MCAnswers :
    /\ Wording[MCClean[a]] = G!CleanFactualOutput(Wording[a])
    /\ a \in MCShort <=> G!WordCount(Wording[a]) < 3

-----------------------------------------------------------------------------
(***************************************************************************)
(* Reference files: none; one that gives a key twice; one with an empty    *)
(* value; one whose second value cannot be stored.                         *)
(***************************************************************************)

Fact(key, text) == [key |-> key, text |-> text]
File(facts)     == [readable |-> TRUE, facts |-> facts]

NoFile     == [readable |-> FALSE, facts |-> <<>>]
Twice      == File(<<Fact("tax", "definition"), Fact("tax law", "definition"),
                     Fact("tax", "verbose")>>)
Emptied    == File(<<Fact("tax law", NoAnswer)>>)
Broken     == File(<<Fact("tax law", "definition"), Fact("tax", BadValue)>>)

NoFiles    == {NoFile}
OneFile    == {Emptied}
BootFiles  == {NoFile, Twice, Broken}

\* No prompt here asks about the two defaults.
MCSeeds == <<[key |-> "socialism",  text |-> "definition", source |-> "seed"],
             [key |-> "capitalism", text |-> "definition", source |-> "seed"]>>
=============================================================================
