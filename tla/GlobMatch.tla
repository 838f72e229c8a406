------------------------------ MODULE GlobMatch ------------------------------
(***************************************************************************)
(* internal/store/store.go globMatch, which KEYS applies to every live key *)
(* of the database: one step per turn of its loop.  The recursive calls a  *)
(* '*' makes for the suffixes of the string are the stack of stars open.   *)
(***************************************************************************)
EXTENDS Integers, Sequences, FiniteSets, SequencesExt

CONSTANTS Patterns, Strings   \* sequences of characters

ASSUME GlobAssumption == Patterns \subseteq Seq(STRING) /\ Strings \subseteq Seq(STRING)

VARIABLES
    pattern, key,   \* the arguments
    pat, str,       \* what is left of them in the innermost call
    stars,          \* the '*' begun: the pattern after it, and the suffix tried
    ans             \* NONE, YES, NO, or PANIC for a slice out of range

globVars == <<pattern, key, pat, str, stars, ans>>

NONE  == "none"
YES   == "yes"
NO    == "no"
PANIC == "panic"

Drop(s, n) == SubSeq(s, n + 1, Len(s))

-----------------------------------------------------------------------------
Running == ans = NONE

\* The innermost call returns true, and so do all that have made it.
Matched == ans' = YES /\ UNCHANGED <<pattern, key, pat, str, stars>>

\* The innermost call returns false, and the innermost '*' that has a suffix left
\* tries the next one (the loop of '*' runs while i <= len(str)).
Mismatch ==
    LET open == {i \in DOMAIN stars : stars[i].str # <<>>}
        k    == Max(open)
    IN  IF open = {} THEN ans' = NO /\ UNCHANGED <<pattern, key, pat, str, stars>>
        ELSE /\ str' = Tail(stars[k].str) /\ pat' = stars[k].pat
             /\ stars' = Append(SubSeq(stars, 1, k - 1), [stars[k] EXCEPT !.str = Tail(@)])
             /\ UNCHANGED <<pattern, key, ans>>

\* One character of the string is consumed, and n of the pattern.
Advance(n) == /\ pat' = Drop(pat, n) /\ str' = Tail(str)
              /\ UNCHANGED <<pattern, key, stars, ans>>

\* Mutant of Star: the pattern passed on still begins with the '*'.
StarKept ==
    /\ Running /\ pat # <<>> /\ Head(pat) = "*"
    /\ IF Len(pat) = 1 THEN Matched
       ELSE stars' = <<[pat |-> pat, str |-> str]>> /\ UNCHANGED <<pattern, key, pat, str, ans>>

Star ==
    /\ Running /\ pat # <<>> /\ Head(pat) = "*"
    /\ IF Len(pat) = 1 THEN Matched
       ELSE /\ stars' = Append(stars, [pat |-> Tail(pat), str |-> str])
            /\ pat' = Tail(pat)
            /\ UNCHANGED <<pattern, key, str, ans>>

Question ==
    /\ Running /\ pat # <<>> /\ Head(pat) = "?"
    /\ IF str = <<>> THEN Mismatch ELSE Advance(1)

\* The offset of the ']' that ends the class pat begins with, or the length of
\* pat if there is none.
ClassEnd(p) == LET close == {i \in 2 .. Len(p) : p[i] = "]"}
               IN  IF close = {} THEN Len(p) ELSE Min(close) - 1

\* Mutant of Class: the ']' is left in the pattern.
ClassKeepsEnd ==
    /\ Running /\ pat # <<>> /\ Head(pat) = "["
    /\ IF str = <<>> \/ Head(str) \notin {pat[i] : i \in 2 .. ClassEnd(pat)} THEN Mismatch
       ELSE Advance(ClassEnd(pat))

\* pat[end+1:] with end = len(pat) is out of range.
Class ==
    /\ Running /\ pat # <<>> /\ Head(pat) = "["
    /\ IF str = <<>> \/ Head(str) \notin {pat[i] : i \in 2 .. ClassEnd(pat)} THEN Mismatch
       ELSE IF ClassEnd(pat) = Len(pat)
       THEN ans' = PANIC /\ UNCHANGED <<pattern, key, pat, str, stars>>
       ELSE Advance(ClassEnd(pat) + 1)

Literal ==
    /\ Running /\ pat # <<>> /\ Head(pat) \notin {"*", "?", "["}
    /\ IF str = <<>> \/ Head(pat) # Head(str) THEN Mismatch ELSE Advance(1)

Finish ==
    /\ Running /\ pat = <<>>
    /\ IF str = <<>> THEN Matched ELSE Mismatch

GlobInit == /\ pattern \in Patterns /\ key \in Strings
            /\ pat = pattern /\ str = key /\ stars = <<>> /\ ans = NONE

GlobNext == Star \/ Question \/ Class \/ Literal \/ Finish
GlobSpec == GlobInit /\ [][GlobNext]_globVars /\ WF_globVars(GlobNext)

-----------------------------------------------------------------------------
(* The language of a pattern, without an algorithm.                        *)

\* Position i of pattern p belongs to a class that begins before it; an item of
\* the pattern begins at every other position.
InClass(p, i) == \E k \in 1 .. i - 1 : p[k] = "[" /\ \A j \in k + 1 .. i - 1 : p[j] # "]"

\* Every class ends.
WellFormed(p) ==
    \A i \in DOMAIN p : p[i] = "[" /\ ~InClass(p, i) => \E j \in i + 1 .. Len(p) : p[j] = "]"

\* The item at position i of p stands for part.
Stands(p, i, part) ==
    CASE p[i] = "*" -> TRUE
      [] p[i] = "?" -> Len(part) = 1
      [] p[i] = "[" -> Len(part) = 1 /\ \E j \in i + 1 .. Len(p) :
                         p[j] = part[1] /\ \A k \in i + 1 .. j : p[k] # "]"
      [] OTHER -> part = <<p[i]>>

\* Position i of p accounts for the characters x + 1 to y of s.
Fits(p, i, s, x, y) == IF InClass(p, i) THEN x = y
                       ELSE Stands(p, i, SubSeq(s, x + 1, y))

\* s can be cut into one part for each position; cut[i] is where part i begins.
Matches(p, s) ==
    \E cut \in [1 .. Len(p) + 1 -> 0 .. Len(s)] :
      /\ cut[1] = 0 /\ cut[Len(p) + 1] = Len(s)
      /\ \A i \in 1 .. Len(p) : cut[i] <= cut[i + 1] /\ Fits(p, i, s, cut[i], cut[i + 1])

(***************************************************************************)
(* globMatch decides what the pattern means: the answer is yes exactly if   *)
(* the key can be cut into parts that the items of the pattern stand for    *)
(* (store.go globMatch, KEYS).  The search of '*' finds every cut.  For     *)
(* patterns with a class that does not end there may be no answer at all.   *)
(***************************************************************************)
AnswerIsRight ==
    ans # NONE /\ WellFormed(pattern) => ans # PANIC /\ (ans = YES <=> Matches(pattern, key))

(***************************************************************************)
(* The search ends, whatever the number of '*' (store.go globMatch).        *)
(***************************************************************************)
Terminates == <>(ans # NONE)
=============================================================================
