----------------------------- MODULE TextLimiter ------------------------------
(***************************************************************************)
(* The limiter of the hashtag field, TextLimiterH, as a function of the     *)
(* text that was typed or pasted.  A text is a sequence of characters of    *)
(* three kinds: the sign "#", one of those the field refuses at its end,    *)
(* and any other.                                                           *)
(*                                                                         *)
(* value's didSet assigns value.  Whether that runs the observer again is   *)
(* not the same for every compiler and wrapper: both results are allowed.   *)
(***************************************************************************)
EXTENDS Integers, Sequences

CONSTANT HashtagLimit   \* 15 in ComposeView

ASSUME LimitAssumption == HashtagLimit \in Nat \ {0}

Char == {"#", "refused", "other"}

Shortest(n, m) == IF n < m THEN n ELSE m

\* prefix(limit).
Truncated(s) == SubSeq(s, 1, Shortest(Len(s), HashtagLimit))

WithSign(s) == IF s # <<>> /\ Head(s) = "#" THEN s ELSE <<"#">> \o s

\* The last character goes, if it is one that is refused.
WithoutOne(s) ==
  IF s # <<>> /\ s[Len(s)] = "refused" THEN SubSeq(s, 1, Len(s) - 1) ELSE s

\* So do all before it, when each assignment is observed: a set with one text.
WithoutAll(s) ==
  {SubSeq(s, 1, n) : n \in {k \in 0 .. Len(s) :
                              /\ k > 0 => s[k] # "refused"
                              /\ \A i \in k + 1 .. Len(s) : s[i] = "refused"}}

\* Deviation: the text is cut before the sign is added.
LimitedCutFirst(s) ==
  {WithoutOne(WithSign(Truncated(s)))} \cup WithoutAll(WithSign(Truncated(s)))

\* didSet: what may become of value.
Limited(s) ==
  {Truncated(WithoutOne(WithSign(s)))}
    \cup UNION {WithoutAll(Truncated(t)) : t \in WithoutAll(WithSign(s))}

\* What can be typed or pasted, in place of whatever was there.
Typed == UNION {[1 .. n -> Char] : n \in 0 .. HashtagLimit + 1}
=============================================================================
