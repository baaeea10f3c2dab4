---------------------------- MODULE SocialReply ----------------------------
(***************************************************************************)
(* Small talk: how build_convo_reference.py puts a turn of a dialogue in   *)
(* the social guide, and how get_social_response of server.py picks a      *)
(* reply from the guide.                                                   *)
(*                                                                         *)
(* A guide has two dictionaries, sequences of entries in the order of      *)
(* insertion, with distinct keys.  Texts are those of TextKeys; the double *)
(* quote, which the scraper leaves a blank before, is no Mark here.  One   *)
(* turn is scraped at a time; a reply has at most the 120 characters that  *)
(* the scraper asks for.                                                   *)
(***************************************************************************)
EXTENDS TextKeys

CONSTANT Fits(_)  \* whether a key has 4 to 60 characters

Entry(key, reply) == [key |-> key, reply |-> reply]

KeysIn(dict) == {dict[i].key : i \in DOMAIN dict}

\* The positions of the entries that have the key, and those whose key holds k or is
\* held by it.
Holding(dict, key) == {i \in DOMAIN dict : dict[i].key = key}

Within(s, t) == s = t \/ (t # <<>> /\ Occurs(s, t))

Near(dict, k) == {i \in DOMAIN dict : Within(dict[i].key, k) \/ Within(k, dict[i].key)}

ValueOf(dict, key) == dict[Min(Holding(dict, key))].reply

-----------------------------------------------------------------------------
(***************************************************************************)
(* The scraper.                                                            *)
(***************************************************************************)

\* re.sub(r'\s+([?!\.,;:])', r'\1', s): no white space before a mark.
CloseUp(s) ==
  At(s, {i \in 1..Len(s) :
           ~ \E j \in i + 1..Len(s) : s[j] = Mark /\ \A n \in i..j - 1 : s[n] \in Spaces})

\* The turn as it was meant: dialogue[0].strip(), without space artifacts.
CleanTurn(s) == CloseUp(Strip(s))

\* normalize_text of the scraper, which keeps question prefixes.
NormalizeText(s) == CollapseBlanks(StripPunct(Strip(s)))

\* What makes a key a greeting, wherever in it these letters are.
GreetingWords ==
  {<<"hi">>, <<"hello">>, <<"morning">>, <<"evening">>,
   <<"how", Blank, "are", Blank, "you">>, <<"day">>}

Greets(key) == \E w \in GreetingWords : Occurs(w, key)

\* Faulty variant: the scraped entry takes the place of one that is there.
MergeEntryOver(dict, entry) ==
  IF entry.key \in KeysIn(dict)
  THEN [dict EXCEPT ![Min(Holding(dict, entry.key))] = entry] ELSE Append(dict, entry)

\* The scraped entry joins the dictionary, unless there is one under its key.
MergeEntry(dict, entry) == IF entry.key \in KeysIn(dict) THEN dict ELSE Append(dict, entry)

\* The guide after a run of the scraper that found the turn and the reply to it.
Scrape(guide, turn, reply) ==
  LET key  == NormalizeText(CleanTurn(turn))
      into == IF Greets(key) THEN "greetings" ELSE "acknowledgments"
  IN  IF Fits(key) THEN [guide EXCEPT ![into] = MergeEntry(@, Entry(key, reply))]
      ELSE guide

-----------------------------------------------------------------------------
(***************************************************************************)
(* The server.                                                             *)
(***************************************************************************)

\* A steerer, or the default: which, no property asks.
Otherwise == "steer"

\* What {**greetings, **acknowledgments} has under a key: the second one wins.
Merged(guide, key) ==
  IF key \in KeysIn(guide.acknowledgments) THEN ValueOf(guide.acknowledgments, key)
  ELSE ValueOf(guide.greetings, key)

\* The first near entry in the order of the merged dictionary, where the keys of the
\* greetings come first.
NearReply(guide, k) ==
  LET greetings == Near(guide.greetings, k)
      others    == Near(guide.acknowledgments, k)
  IN  IF greetings # {} THEN Merged(guide, guide.greetings[Min(greetings)].key)
      ELSE IF others # {} THEN guide.acknowledgments[Min(others)].reply
      ELSE Otherwise

\* get_social_response for a normalized prompt.
Reply(guide, k) ==
  IF k \in KeysIn(guide.greetings) THEN ValueOf(guide.greetings, k)
  ELSE IF k \in KeysIn(guide.acknowledgments) THEN ValueOf(guide.acknowledgments, k)
  ELSE NearReply(guide, k)
=============================================================================
