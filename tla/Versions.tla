------------------------------- MODULE Versions -------------------------------
(***************************************************************************)
(* Versions as the doctor compares them: the gap between an installed and  *)
(* a published version of a package (src/src/drift/classify.ts), and the   *)
(* order of release tags by which the prune of images decides which to     *)
(* keep (src/src/tagClassifier.ts).  A version is three numbers and, maybe *)
(* a prerelease: a word and a number, "beta.10".                           *)
(***************************************************************************)
EXTENDS Integers, Sequences

NoPre == <<>>
Version(ma, mi, pa, pre) == [major |-> ma, minor |-> mi, patch |-> pa, pre |-> pre]

(* None at all, and a text that parse() answers null for.                  *)
NoVersion == Version(0, 0, 0, <<"none">>)
Unparsed == Version(0, 0, 0, <<"unparsed">>)

SameTriple(a, b) == a.major = b.major /\ a.minor = b.minor /\ a.patch = b.patch

(* How far the installed version is behind; not at all when it is ahead.   *)
Classify(installed, latest) ==
  IF installed = Unparsed \/ latest \in {NoVersion, Unparsed} THEN "unknown"
  ELSE IF SameTriple(installed, latest)
       THEN IF installed.pre = latest.pre THEN "up-to-date" ELSE "prerelease"
  ELSE IF latest.major > installed.major THEN "major"
  ELSE IF latest.major = installed.major /\ latest.minor > installed.minor THEN "minor"
  ELSE IF /\ latest.major = installed.major /\ latest.minor = installed.minor
          /\ latest.patch > installed.patch
       THEN "patch" ELSE "up-to-date"

-----------------------------------------------------------------------------
(* The numbers of a prerelease have one digit or two.                      *)
Digits(n) == IF n < 10 THEN <<n>> ELSE <<n \div 10, n % 10>>

Sign(a, b) == IF a > b THEN 1 ELSE IF a < b THEN -1 ELSE 0

(* localeCompare() of two prereleases: the word, then the digits of the    *)
(* number one by one, as of any text.                                      *)
LocaleCompare(p, q) ==
  LET d == Digits(p[2])  e == Digits(q[2])
  IN  IF p[1] # q[1] THEN IF p[1] = "rc" THEN 1 ELSE -1
      ELSE IF d[1] # e[1] THEN Sign(d[1], e[1])
      ELSE IF Len(d) = 2 /\ Len(e) = 2 THEN Sign(d[2], e[2]) ELSE Sign(Len(d), Len(e))

(* > 0 if a is newer, < 0 if b is.                                         *)
CompareSemver(a, b) ==
  IF a.major # b.major THEN Sign(a.major, b.major)
  ELSE IF a.minor # b.minor THEN Sign(a.minor, b.minor)
  ELSE IF a.patch # b.patch THEN Sign(a.patch, b.patch)
  ELSE IF a.pre = b.pre THEN 0
  ELSE IF a.pre = NoPre THEN 1
  ELSE IF b.pre = NoPre THEN -1
  ELSE LocaleCompare(a.pre, b.pre)

(* What semantic versioning says of it: a prerelease is older than its     *)
(* release, beta older than rc, and their numbers are compared as numbers. *)
Rank(v) ==
  <<v.major, v.minor, v.patch,
    IF v.pre = NoPre THEN 2 ELSE IF v.pre[1] = "rc" THEN 1 ELSE 0,
    IF v.pre = NoPre THEN 0 ELSE v.pre[2]>>

SemverNewer(a, b) ==
  \E i \in 1 .. 5 : /\ Rank(a)[i] > Rank(b)[i]
                    /\ \A k \in 1 .. 5 : k < i => Rank(a)[k] = Rank(b)[k]
=============================================================================
