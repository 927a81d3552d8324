------------------------------ MODULE SpeechText ------------------------------
(***************************************************************************)
(* The text side of speech: how a reply is cut into chunks for synthesis   *)
(* (speech/chunking.py) and how a transcript is matched against the        *)
(* trigger phrases (speech/triggers.py).                                   *)
(*                                                                         *)
(* A text is a sequence of characters of six classes: a letter, a blank,   *)
(* a comma, a dash, a sentence end (.!?;:) and a conjunction, which is one *)
(* character here.  The bounds 12 and 32 of the code are constants.        *)
(***************************************************************************)
EXTENDS Naturals, Sequences, FiniteSets, SequencesExt

CONSTANTS MaxChars,    \* max_chars
          FirstChars,  \* first_chunk_chars
          MinFirst,    \* 12: the least first chunk
          MinPiece     \* 32: the least piece of a long fragment

ASSUME ChunkAssumption ==
  {MaxChars, FirstChars, MinFirst, MinPiece} \subseteq Nat \ {0}

Classes == {"x", " ", ",", "-", ".", "&"}

Larger(a, b) == IF a >= b THEN a ELSE b

RECURSIVE Strip(_)
Strip(t) ==
  CASE t # <<>> /\ Head(t) = " "    -> Strip(Tail(t))
    [] t # <<>> /\ Last(t) = " "    -> Strip(Front(t))
    [] OTHER                        -> t

(* " ".join(text.split()) *)
RECURSIVE Squeeze(_)
Squeeze(t) ==
  IF Len(t) < 2 THEN t
  ELSE IF t[1] = " " /\ t[2] = " " THEN Squeeze(Tail(t)) ELSE <<t[1]>> \o Squeeze(Tail(t))

Clean(t) == Strip(Squeeze(t))

Prefix(t, n)   == SubSeq(t, 1, n)
Rest(t, n)     == SubSeq(t, n + 1, Len(t))
Window(t, max) == SubSeq(t, 1, IF Len(t) < max + 1 THEN Len(t) ELSE max + 1)

(* window.rfind: the last 0-based place of a separator, or none.            *)
Places(w, sep) == {i \in 0..Len(w) - Len(sep) : SubSeq(w, i + 1, i + Len(sep)) = sep}
LastPlace(w, sep, low) ==
  LET ps == Places(w, sep)
  IN IF ps = {} THEN {}
     ELSE {i \in {CHOOSE i \in ps : \A j \in ps : j <= i} : i >= low}

TheOne(set) == CHOOSE x \in set : TRUE

(* A punctuation mark and its blank, the earliest that is long enough; else *)
(* the last conjunction; else the last blank; else a cut inside a word.     *)
FirstSplitIndex(t, max) ==
  LET w     == Window(t, max)
      low   == Larger(MinFirst, max \div 3)
      marks == {i \in 2..Len(w) : w[i - 1] \in {",", "."} /\ w[i] = " " /\ low <= i /\ i <= max}
      conj  == LastPlace(w, <<" ", "&", " ">>, low)
      blank == LastPlace(w, <<" ">>, low)
  IN CASE marks # {} -> CHOOSE i \in marks : \A j \in marks : i <= j
       [] marks = {} /\ conj # {} -> TheOne(conj)
       [] marks = {} /\ conj = {} /\ blank # {} -> TheOne(blank)
       [] OTHER -> max

FirstFragment(t, max) ==
  IF Len(t) <= max THEN <<t, <<>>>>
  ELSE LET n == FirstSplitIndex(t, max) IN <<Strip(Prefix(t, n)), Strip(Rest(t, n))>>

(* Mutant: the blank after the window is taken for one inside it. *)
SplitIndexOffByOne(t, max) ==
  LET blank == LastPlace(Window(t, max), <<" ">>, Larger(MinPiece, max \div 3))
  IN IF blank # {} THEN TheOne(blank) + 1 ELSE max + 1

SplitIndex(t, max) ==
  LET w     == Window(t, max)
      low   == Larger(MinPiece, max \div 3)
      comma == LastPlace(w, <<",", " ">>, low)
      dash  == LastPlace(w, <<" ", "-", " ">>, low)
      blank == LastPlace(w, <<" ">>, low)
  IN CASE comma # {} -> TheOne(comma) + 1
       [] comma = {} /\ dash # {} -> TheOne(dash)
       [] comma = {} /\ dash = {} /\ blank # {} -> TheOne(blank)
       [] OTHER -> max

RECURSIVE SplitLongFragment(_, _)
SplitLongFragment(t, max) ==
  LET r == Strip(t)
      n == SplitIndex(r, max)
  IN CASE r = <<>>     -> <<>>
       [] r # <<>> /\ Len(r) <= max -> <<r>>
       [] OTHER        -> <<Strip(Prefix(r, n))>> \o SplitLongFragment(Rest(r, n), max)

(* re.split after a sentence end and blanks.                                *)
RECURSIVE Sentences(_)
Sentences(t) ==
  LET ends == {i \in 2..Len(t) : t[i - 1] = "." /\ t[i] = " "}
  IN IF ends = {} THEN <<t>>
     ELSE LET i == CHOOSE i \in ends : \A j \in ends : i <= j
          IN <<Prefix(t, i - 1)>> \o Sentences(Rest(t, i))

Pieces(t, max) == FlattenSeq([i \in 1..Len(Sentences(t)) |-> SplitLongFragment(Sentences(t)[i], max)])

(* Pieces are joined with a blank while they fit.                           *)
AddPiece(acc, piece, max) ==
  CASE acc.current = <<>> -> [acc EXCEPT !.current = piece]
    [] acc.current # <<>> /\ Len(acc.current) + 1 + Len(piece) <= max ->
         [acc EXCEPT !.current = @ \o <<" ">> \o piece]
    [] OTHER -> [chunks |-> Append(acc.chunks, acc.current), current |-> piece]

SpeechChunks(text) ==
  LET t     == Clean(text)
      first == FirstFragment(t, FirstChars)
      acc   == FoldLeft(LAMBDA a, p : AddPiece(a, p, MaxChars),
                        [chunks |-> IF first[1] = <<>> THEN <<>> ELSE <<first[1]>>, current |-> <<>>],
                        Pieces(first[2], MaxChars))
  IN IF t = <<>> THEN <<>>
     ELSE IF acc.current = <<>> THEN acc.chunks ELSE Append(acc.chunks, acc.current)

-------------------------------------------------------------------------------
(* Trigger phrases.  A transcript is a sequence of words without case and   *)
(* punctuation; 's is a word of its own, as the pattern's \b ends before it.*)

CONSTANTS TriggerWords,     \* trigger_words, in order
          OnPhrases,        \* conversation_on_phrases, in order
          Aliases,          \* TRIGGER_PREFIX_ALIASES
          Residues          \* CONFIRMED_WAKE_RESIDUES

PrefixCandidates(p) == <<p>> \o (IF p \in DOMAIN Aliases THEN Aliases[p] ELSE <<>>)

Patterns(kind, phrases) ==
  FlattenSeq([i \in 1..Len(phrases) |->
    [j \in 1..Len(PrefixCandidates(phrases[i])) |->
      [kind |-> kind, phrase |-> phrases[i], words |-> PrefixCandidates(phrases[i])[j]]]])

Matches(words, t) == IsPrefix(words, t)

Detection(p, t) == [kind |-> p.kind, phrase |-> p.phrase, routed |-> Rest(t, Len(p.words))]

NoDetection == [kind |-> "none"]

FirstMatch(ps, t) ==
  LET hits == {i \in 1..Len(ps) : Matches(ps[i].words, t)}
  IN IF hits = {} THEN NoDetection
     ELSE Detection(ps[CHOOSE i \in hits : \A j \in hits : i <= j], t)

(* TriggerPhraseMatcher.match *)
MatchTrigger(t) ==
  FirstMatch(Patterns("wake_command", TriggerWords) \o Patterns("conversation_on", OnPhrases), t)

(* match_confirmed: the spotter heard the phrase already.                   *)
MatchConfirmed(t, kind, phrase) ==
  LET known   == Patterns(kind, <<phrase>>)
      residue == IF kind = "wake_command" /\ phrase \in DOMAIN Residues
                 THEN [i \in 1..Len(Residues[phrase]) |->
                        [kind |-> kind, phrase |-> phrase, words |-> Residues[phrase][i]]]
                 ELSE <<>>
  IN FirstMatch(known \o residue, t)

-------------------------------------------------------------------------------

(* Properties of every text and every transcript of a bounded set.          *)

Spoken(t) == SelectSeq(t, LAMBDA c : c # " ")

(* What is spoken is the text: no chunk is empty or longer than its limit,  *)
(* none begins or ends in a blank, and together they say every character,   *)
(* in order and once (speech_chunks).                                       *)
ChunksSayTheText(texts) ==
  \A t \in texts :
    LET cs == SpeechChunks(t)
    IN /\ \A i \in DOMAIN cs :
            /\ cs[i] # <<>> /\ Strip(cs[i]) = cs[i]
            /\ Len(cs[i]) <= IF i = 1 THEN FirstChars ELSE MaxChars
       /\ Spoken(FlattenSeq(cs)) = Spoken(t)

Heard(phrases, t) ==
  \E i \in DOMAIN phrases : \E j \in DOMAIN PrefixCandidates(phrases[i]) :
    IsPrefix(PrefixCandidates(phrases[i])[j], t)

(* A transcript is routed by the phrase it begins with and loses that and   *)
(* nothing else; a wake word goes before a mode phrase; without either at   *)
(* its beginning nothing is detected (match).                               *)
TriggersRoute(transcripts) ==
  \A t \in transcripts :
    LET d == MatchTrigger(t)
    IN /\ d.kind = "wake_command" <=> Heard(TriggerWords, t)
       /\ d.kind = "none" <=> ~Heard(TriggerWords, t) /\ ~Heard(OnPhrases, t)
       /\ d.kind # "none" =>
            \E i \in DOMAIN PrefixCandidates(d.phrase) : PrefixCandidates(d.phrase)[i] \o d.routed = t

(* Once the spotter has heard a phrase its transcript is cut as an ordinary *)
(* one is, and of a wake word that was misheard only the residue is cut: a  *)
(* confirmed match never routes more or less (match_confirmed).             *)
ConfirmedAgrees(transcripts) ==
  \A t \in transcripts :
    LET d == MatchTrigger(t)
        Cut(c) == \E n \in 1..Len(t) : c.routed = Rest(t, n)
    IN /\ d.kind # "none" => MatchConfirmed(t, d.kind, d.phrase) = d
       /\ \A i \in DOMAIN TriggerWords :
            LET c == MatchConfirmed(t, "wake_command", TriggerWords[i])
            IN c.kind # "none" =>
                 /\ Cut(c) /\ c.phrase = TriggerWords[i]
                 /\ d.kind = "none" => TriggerWords[i] \in DOMAIN Residues
       /\ \A i \in DOMAIN OnPhrases :
            MatchConfirmed(t, "conversation_on", OnPhrases[i]).kind # "none" => Heard(OnPhrases, t)
===============================================================================
