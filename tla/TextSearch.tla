------------------------------ MODULE TextSearch -----------------------------
(***************************************************************************)
(* search_ctx (textobj.cxx): the search for one or for several patterns,   *)
(* each with or without regard to case.  Texts and patterns are sequences  *)
(* of characters; positions count from 0 as in the source.  A context is   *)
(* [pattern, exact, and, shift, min_length]: exact and and are the sets of *)
(* the pattern numbers whose bit is set in exact_mask and and_mask.        *)
(***************************************************************************)
EXTENDS Integers, FiniteSetsExt, Sequences

CONSTANTS Char, upper_case, lower_case   \* the characters and conversion_table

\* The character at position i.
At(s, i) == s[i + 1]

Folded(p) == [i \in DOMAIN p |-> upper_case[p[i]]]

\* The least shift that one of the patterns asks for at this character.
LOCAL Shifts(pattern, exact, min_len, c) ==
  {min_len + 1} \cup
  {min_len - j : j \in {j \in 0..min_len - 1 : \E i \in DOMAIN pattern :
                          \/ At(pattern[i], j) = c
                          \/ i \notin exact /\ lower_case[At(pattern[i], j)] = c}}

\* The constructor of search_ctx.
search_ctx(patterns, and, exact) ==
  LET pattern == [i \in DOMAIN patterns |-> IF i \in exact THEN patterns[i] ELSE Folded(patterns[i])]
      min_len == Min({Len(p) - 1 : p \in {patterns[i] : i \in DOMAIN patterns}})
  IN  [pattern    |-> pattern,
       exact      |-> exact,
       and        |-> and,
       min_length |-> min_len,
       shift      |-> [c \in Char |-> Min(Shifts(pattern, exact, min_len, c))]]

\* Pattern j read against the text with position a for its first character.
Matches(ctx, j, s, a) ==
  LET p == ctx.pattern[j] IN
  /\ a + Len(p) <= Len(s)
  /\ \A k \in 0..Len(p) - 1 :
       At(p, k) = IF j \in ctx.exact THEN At(s, a + k) ELSE upper_case[At(s, a + k)]

\* Variant: the shift is one too long.
NextWindowSkips(ctx, s, i) == i + ctx.shift[At(s, i)] + 1

\* The step of the loops over the windows of the text, which end at i.
NextWindow(ctx, s, i) == i + ctx.shift[At(s, i)]

\* The loops of search_ctx::search() over the windows of s, the rest of the
\* text.  matched is matched_mask; and is empty for a single pattern.  A
\* pattern that matches without completing and leaves the innermost loop
\* running: it goes on to compare what lies before the pattern with what lies
\* before the window.  There it can only set the same bit again and repeat the
\* same test of and_mask, until two bytes differ or until it leaves the memory
\* of the process; over says that it has come to this.  It is the first
\* pattern tried that decides, the last one when no pattern is exact.
RECURSIVE Windows(_, _, _, _, _, _)
Windows(ctx, s, and, i, matched, over) ==
  LET start  == i - ctx.min_length
      here   == {j \in DOMAIN ctx.pattern : Matches(ctx, j, s, start)}
      first  == IF ctx.exact = {} THEN Max(here) ELSE Min(here)
      beyond == over \/ (here # {} /\ ~(and \subseteq matched \cup {first}))
  IN  IF i >= Len(s) THEN [at |-> -1, over |-> over]
      ELSE IF here # {} /\ and \subseteq matched \cup here THEN [at |-> start, over |-> beyond]
      ELSE Windows(ctx, s, and, NextWindow(ctx, s, i), matched \cup here, beyond)

\* The read outside the pattern or the text meets no memory: the process ends.
Fault == -2

\* search_ctx::search(): what position may be afterwards, -1 when nothing was
\* found.
text_search(ctx, text, position) ==
  LET s   == SubSeq(text, position + 2, Len(text))
      and == IF Len(ctx.pattern) = 1 THEN {} ELSE ctx.and
      w   == Windows(ctx, s, and, ctx.min_length, {}, FALSE)
  IN  {IF w.at = -1 THEN -1 ELSE position + 1 + w.at} \cup (IF w.over THEN {Fault} ELSE {})

-----------------------------------------------------------------------------
\* The definition the search is compared with.

Occurs(ctx, j, text, position) == {a \in position + 1..Len(text) - 1 : Matches(ctx, j, text, a)}

Expected(ctx, text, position) ==
  LET at(j) == Occurs(ctx, j, text, position)
      and   == IF Len(ctx.pattern) = 1 THEN {} ELSE ctx.and
      any   == UNION {at(j) : j \in DOMAIN ctx.pattern}
  IN  IF any = {} \/ \E j \in and : at(j) = {} THEN -1
      ELSE Max({Min(any)} \cup {Min(at(j)) : j \in and})
=============================================================================
