--------------------------- MODULE MCConfiguration ---------------------------
(***************************************************************************)
(* Instances of Configuration for TLC.                                     *)
(***************************************************************************)
EXTENDS Configuration

MCSymbols == {"word", "=", "kata", "host", ":", "5000", "/", "dir", "3.2", "-dots", "release",
              "!", "sha256", "@", "org", "controller", "admission", "installation", "-dev",
              "v1", "v2", "-dirty", "latest"}

MCAlphanumeric == {"word", "kata", "host", "5000", "dir", "3.2", "release", "sha256", "org",
                   "controller", "admission", "installation", "v1", "v2", "latest"}

\* Every mixture of a separator and a word up to three tokens.
MCValues == UNION {[1..n -> {"word", "="}] : n \in 0..3}

\* With and without a registry, a port and a path.
MCRepositories == {<<"kata">>, <<"host", "/", "kata">>,
                   <<"host", ":", "5000", "/", "kata">>,
                   <<"host", ":", "5000", "/", "dir", "/", "kata">>}
MCTags == {<<"3.2">>, <<"3.2", "-dots", "release">>, <<"-dots", "3.2">>,
           <<"3.2", "!", "release">>, <<"sha256", ":", "3.2">>, <<"-dots", "/", "3.2">>}
MCDigest == <<"sha256", ":", "release">>

\* A release and a dev build of one commit, one with local changes, one whose tag
\* is no version, and one of another commit, from a registry without a port, that has
\* no admission image.
MCBuild(org, postfix, tag, installation) ==
    [controller |-> org \o <<"/", "controller">> \o postfix \o <<":">> \o tag,
     admission |-> org \o <<"/", "admission">> \o postfix \o <<":">> \o tag,
     installation |-> org \o <<"/", "installation", ":">> \o installation]
MCBuilds ==
    LET org == <<"host", ":", "5000", "/", "org">> IN
    {MCBuild(org, <<>>, <<"v1">>, <<"3.2">>),
     MCBuild(org, <<"-dev">>, <<"v1">>, <<"3.2">>),
     MCBuild(org, <<>>, <<"v1", "-dirty">>, <<"3.2", "-dirty">>),
     MCBuild(org, <<>>, <<"latest">>, <<"3.2">>),
     [MCBuild(<<"host">>, <<"-dev">>, <<"v2">>, <<"3.2", "-dots", "release">>)
         EXCEPT !.admission = Nil]}
MCDigests == {<<"sha256", ":", "release">>, <<"sha256", ":", "3.2">>}
==============================================================================
