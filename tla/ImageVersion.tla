----------------------------- MODULE ImageVersion -----------------------------
(***************************************************************************)
(* How the Kata version is read off the installation image. The version    *)
(* names the directory on the node and is written into a shell script.     *)
(*                                                                         *)
(*   image    what the image vector, or its overwrite, says                *)
(*   version  the version read off it, Invalid if that is an error         *)
(***************************************************************************)
EXTENDS Tokens

CONSTANTS
    Repositories,   \* repositories, token by token, port and path included
    Tags,           \* what can stand for a tag or a version, token by token
    Digest,         \* a digest
    Alphanumeric,   \* the tokens that are letters and digits
    Nil,            \* a field of the image that is not set
    Invalid         \* an error

VARIABLES image, version

vars == <<image, version>>
-------------------------------------------------------------------------------
\* ^[A-Za-z0-9][A-Za-z0-9._-]*$, by token: "-dots" stands for a run of dots
\* and dashes, "-dirty" and "-dev" for themselves, "!" for any character in none of the classes.
validVersion(s) ==
    /\ s # <<>>
    /\ s[1] \in Alphanumeric
    /\ \A i \in DOMAIN s : s[i] \in Alphanumeric \cup {"-dots", "-dirty", "-dev"}

IsDigest(s) == Len(s) >= 2 /\ s[1] = "sha256" /\ s[2] = ":"
Usable(s) == s # <<>> /\ ~IsDigest(s)

FromTag(tag) ==
    IF tag = Nil THEN <<>>
    ELSE LET t == Cut(tag, "@").before IN IF Usable(t) THEN t ELSE <<>>

\* Mutant: the tag is looked for in the whole reference, port and all.
FromWholeRef(ref) ==
    IF ref = Nil THEN <<>>
    ELSE LET t == Cut(Cut(ref, "@").before, ":").after
         IN IF Usable(t) THEN t ELSE <<>>

FromRef(ref) ==
    IF ref = Nil THEN <<>>
    ELSE LET path == AfterLast(Cut(ref, "@").before, "/")
             t == Cut(path, ":").after
         IN IF Usable(t) THEN t ELSE <<>>

FromVersion(v) == IF v # Nil /\ Usable(v) THEN v ELSE <<>>

\* Mutant: a tag counts even if it is a digest.
FirstAnyTag(img) ==
    IF img.tag # Nil /\ img.tag # <<>> THEN img.tag
    ELSE IF FromRef(img.ref) # <<>> THEN FromRef(img.ref) ELSE FromVersion(img.version)

FirstUsable(img) ==
    IF FromTag(img.tag) # <<>> THEN FromTag(img.tag)
    ELSE IF FromRef(img.ref) # <<>> THEN FromRef(img.ref) ELSE FromVersion(img.version)

\* Mutant: what was found is not validated.
VersionUnchecked(img) == FirstUsable(img)

VersionFromImage(img) ==
    IF validVersion(FirstUsable(img)) THEN FirstUsable(img) ELSE Invalid
-------------------------------------------------------------------------------
\* The same image in the two forms an image vector entry has: repository and
\* tag, or one reference.
Pinned(tag, digest) == IF digest = Nil THEN tag ELSE tag \o <<"@">> \o digest
ByTag(repo, tag, digest, v) ==
    [tag |-> Pinned(tag, digest), ref |-> Nil, version |-> v]
ByRef(repo, tag, digest, v) ==
    [tag |-> Nil, version |-> v,
     ref |-> Pinned(repo \o (IF tag = <<>> THEN <<>> ELSE <<":">> \o tag), digest)]

Unset == [tag |-> Nil, ref |-> Nil, version |-> Nil]

Init ==
    /\ image = Unset
    /\ version = Invalid

\* IMAGEVECTOR_OVERWRITE is read again on every mutation.
FindInstallationImage ==
    \E repo \in Repositories, tag \in Tags \cup {<<>>}, digest \in {Nil, Digest},
       v \in Tags \cup {Nil, <<>>} :
        /\ image' \in {ByTag(repo, tag, digest, v), ByRef(repo, tag, digest, v)}
        /\ version' = VersionFromImage(image')

\* A tag field may also hold nothing but a digest.
FindByDigest ==
    \E v \in Tags \cup {Nil, <<>>} :
        /\ image' = [tag |-> Digest, ref |-> Nil, version |-> v]
        /\ version' = VersionFromImage(image')

Next == FindInstallationImage \/ FindByDigest

Spec == Init /\ [][Next]_vars
-------------------------------------------------------------------------------
(* Properties.                                                             *)

\* No image makes the installation leave its directory or the script end its
\* string: a version has no separator, does not begin with dots and is not
\* empty ("preventing path traversal or script injection").
VersionIsName ==
    version # Invalid =>
        /\ version # <<>> /\ version[1] # "-dots"
        /\ {version[i] : i \in DOMAIN version} \cap {"/", ":", "@", "!"} = {}

\* The version is the tag, in whichever form the image is given, whatever port
\* the registry has, whether a digest pins it or not. (A tag has no slash.)
VersionIsTag ==
    \A repo \in Repositories, tag \in {t \in Tags : At(t, "/") = {}},
       digest \in {Nil, Digest}, v \in Tags \cup {Nil} :
        image \in {ByTag(repo, tag, digest, v), ByRef(repo, tag, digest, v)} =>
            version = IF validVersion(tag) THEN tag
                      ELSE IF IsDigest(tag) THEN VersionFromImage([Unset EXCEPT !.version = v])
                      ELSE Invalid

\* An image that only a digest names still has the version of its entry.
DigestFallsBack ==
    \A repo \in Repositories, v \in {t \in Tags : validVersion(t)} :
        image \in {[tag |-> Digest, ref |-> Nil, version |-> v],
                   ByRef(repo, <<>>, Digest, v)} =>
            version = v
==============================================================================
