-------------------------------- MODULE Tokens --------------------------------
(***************************************************************************)
(* Strings as sequences of tokens: a separator or a run of characters that *)
(* the code under study never splits. Go's strings package and the shell's *)
(* expansions (external).                                                  *)
(***************************************************************************)
EXTENDS Naturals, Sequences

\* The positions of a separator.
At(s, sep) == {i \in DOMAIN s : s[i] = sep}

\* strings.Cut: what is before and after the first separator.
Cut(s, sep) ==
    IF At(s, sep) = {} THEN [found |-> FALSE, before |-> s, after |-> <<>>]
    ELSE LET first == CHOOSE i \in At(s, sep) : \A j \in At(s, sep) : i <= j
         IN [found |-> TRUE, before |-> SubSeq(s, 1, first - 1),
             after |-> SubSeq(s, first + 1, Len(s))]

\* What is after the last separator: s[strings.LastIndex(s, sep)+1:].
AfterLast(s, sep) ==
    IF At(s, sep) = {} THEN s
    ELSE LET last == CHOOSE i \in At(s, sep) : \A j \in At(s, sep) : j <= i
         IN SubSeq(s, last + 1, Len(s))

\* What is before the last separator: ${s%sep*} of the shell.
BeforeLast(s, sep) ==
    IF At(s, sep) = {} THEN s
    ELSE LET last == CHOOSE i \in At(s, sep) : \A j \in At(s, sep) : j <= i
         IN SubSeq(s, 1, last - 1)
==============================================================================
