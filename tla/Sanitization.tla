---------------------------- MODULE Sanitization ----------------------------
(***************************************************************************)
(* sanitization: makes a key out of a text.  It trims the text, keeps the  *)
(* characters a key may have, puts one '_' for each run of others, and     *)
(* cuts what is too long.  The loops over the characters are taken one     *)
(* character at a time, and a caller may sanitize what it got once more.   *)
(*                                                                         *)
(* Characters are bytes: those of a multi-byte character are others.       *)
(***************************************************************************)
EXTENDS Integers, Sequences, FiniteSets

CONSTANTS Alnum,       \* letters and digits
          KeyPunctuationCharacters,
          Whitespace,  \* what isspace takes for one
          Others,      \* all other bytes
          Underscore,
          MaxLength,   \* 254
          Inputs       \* bound: the texts

Legal      == Alnum \cup KeyPunctuationCharacters
Characters == Legal \cup Whitespace \cup Others

ASSUME SanitizationAssumption ==
  /\ Underscore \in KeyPunctuationCharacters
  /\ Legal \cap (Whitespace \cup Others) = {}
  /\ MaxLength \in Nat \ {0}
  /\ Inputs \subseteq Seq(Characters)

VARIABLES
  documentHandle, \* the text
  pc,             \* "ltrim", "rtrim", "loop", "done"
  input_key,      \* what the loop has not looked at yet
  legal_key,      \* the key so far
  first,          \* an illegal character would be the first of its run
  again           \* history: the text is itself the result of a call

vars == <<documentHandle, pc, input_key, legal_key, first, again>>

Init ==
  /\ documentHandle \in Inputs /\ pc = "ltrim"
  /\ input_key = documentHandle /\ legal_key = <<>> /\ first = TRUE /\ again = FALSE

Trims == UNCHANGED <<documentHandle, legal_key, first, again>>

\* detail::ltrim
TrimLeft ==
  LET starts == input_key # <<>> /\ Head(input_key) \in Whitespace IN
  /\ pc = "ltrim" /\ Trims
  /\ \/ starts /\ input_key' = Tail(input_key) /\ UNCHANGED pc
     \/ ~starts /\ pc' = "rtrim" /\ UNCHANGED input_key

\* detail::rtrim
TrimRight ==
  LET last == Len(input_key)
      ends == input_key # <<>> /\ input_key[last] \in Whitespace IN
  /\ pc = "rtrim" /\ Trims
  /\ \/ ends /\ input_key' = SubSeq(input_key, 1, last - 1) /\ UNCHANGED pc
     \/ ~ends /\ pc' = "loop" /\ UNCHANGED input_key

Loops ==
  /\ pc = "loop" /\ input_key # <<>>
  /\ input_key' = Tail(input_key)
  /\ UNCHANGED <<documentHandle, pc, again>>

Keep ==
  /\ Loops /\ Head(input_key) \in Legal
  /\ legal_key' = Append(legal_key, Head(input_key)) /\ first' = TRUE

\* Mutant: the character itself is kept.
Replace_Kept ==
  /\ Loops /\ Head(input_key) \notin Legal /\ first
  /\ legal_key' = Append(legal_key, Head(input_key)) /\ first' = FALSE

\* Mutant: every illegal character has its own '_'.
Replace_Each ==
  /\ Loops /\ Head(input_key) \notin Legal /\ first
  /\ legal_key' = Append(legal_key, Underscore) /\ UNCHANGED first

Replace ==
  /\ Loops /\ Head(input_key) \notin Legal /\ first
  /\ legal_key' = Append(legal_key, Underscore) /\ first' = FALSE

Skip ==
  /\ Loops /\ Head(input_key) \notin Legal /\ ~first
  /\ UNCHANGED <<legal_key, first>>

\* Mutant: nothing is cut.
Shortened_Never(s) == s

\* Mutant: one character less.
Shortened_Short(s) == IF Len(s) < MaxLength THEN s ELSE SubSeq(s, 1, MaxLength - 1)

\* substr(0, 254)
Shortened(s) == IF Len(s) <= MaxLength THEN s ELSE SubSeq(s, 1, MaxLength)

Cut ==
  /\ pc = "loop" /\ input_key = <<>>
  /\ pc' = "done"
  /\ legal_key' = Shortened(legal_key)
  /\ UNCHANGED <<documentHandle, input_key, first, again>>

\* The caller sanitizes a key it has got from an earlier call.
SanitizeAgain ==
  /\ pc = "done" /\ ~again
  /\ documentHandle' = legal_key /\ pc' = "ltrim" /\ again' = TRUE
  /\ input_key' = legal_key /\ legal_key' = <<>> /\ first' = TRUE

Finished == pc = "done" /\ again /\ UNCHANGED vars

Next == TrimLeft \/ TrimRight \/ Keep \/ Replace \/ Skip \/ Cut \/ SanitizeAgain \/ Finished

Spec == Init /\ [][Next]_vars

-----------------------------------------------------------------------------
(* Properties. *)

\* The variables have their types; the first of a run gives the key its '_', so that the
\* key is not empty when a run goes on.
TypeOK ==
  /\ documentHandle \in Seq(Characters) /\ input_key \in Seq(Characters)
  /\ legal_key \in Seq(Legal) /\ pc \in {"ltrim", "rtrim", "loop", "done"}
  /\ first \in BOOLEAN /\ again \in BOOLEAN
  /\ ~first => legal_key # <<>>

\* What comes out is a key that documents can have: of the characters the code takes for
\* legal, not too long, and not empty unless there is nothing but whitespace in the text.
ResultIsKey ==
  pc = "done" =>
    /\ \A i \in DOMAIN legal_key : legal_key[i] \in Legal
    /\ Len(legal_key) <= MaxLength
    /\ legal_key = <<>> => \A i \in DOMAIN documentHandle : documentHandle[i] \in Whitespace

\* A key that is sanitized, again or for the first time, is the same key: else a document
\* stored under a sanitized key would not be found under it.
KeysAreKept ==
  pc = "done" /\ (again \/ ( /\ Len(documentHandle) <= MaxLength
                             /\ \A i \in DOMAIN documentHandle : documentHandle[i] \in Legal))
    => legal_key = documentHandle

\* The key, against a definition without a loop: of the text without whitespace around it,
\* the legal characters and the first illegal one of each run, as '_', up to the length.
AgreesWithReference ==
  LET solid   == {i \in DOMAIN documentHandle : documentHandle[i] \notin Whitespace}
      s       == IF solid = {} THEN <<>>
                 ELSE SubSeq(documentHandle, CHOOSE i \in solid : \A j \in solid : i <= j,
                                             CHOOSE i \in solid : \A j \in solid : i >= j)
      kept    == {i \in DOMAIN s : s[i] \in Legal \/ i = 1 \/ s[i - 1] \in Legal}
      rank(i) == Cardinality({j \in kept : j <= i})
  IN pc = "done" =>
       /\ Len(legal_key) = IF Cardinality(kept) < MaxLength THEN Cardinality(kept) ELSE MaxLength
       /\ \A i \in kept : rank(i) <= MaxLength =>
            legal_key[rank(i)] = IF s[i] \in Legal THEN s[i] ELSE Underscore
=============================================================================
