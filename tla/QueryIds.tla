------------------------------ MODULE QueryIds ------------------------------
(***************************************************************************)
(* lib/query: the input bits that the client encodes a query into, and the *)
(* input bits that a server derives from a key of its database under the   *)
(* same Info.  A byte is one element of a sequence; equal bits are equal   *)
(* sequences.  The 128-bit hash of an e-mail address is a single element   *)
(* that stands for the whole address.                                      *)
(*                                                                         *)
(* A request is the Info together with what the user asked for:            *)
(*   [target, fromStart, fromEnd, and, avg, text, algo, year]              *)
(* and a key is [email, algo, created], created being a time.Time: the     *)
(* instant and the zone it is expressed in, [year, day, zone].             *)
(***************************************************************************)
EXTENDS Integers, Sequences

CONSTANTS KnownAlgos, (* the names that ToPKAClientFSS knows              *)
          NoAlgo      (* the zero value of packet.PublicKeyAlgorithm      *)

\* time.Date(y, 0, 0, ..., time.UTC): month 0 is the December before, day 0 of
\* it the last day of November.
DateOfYear(y) == [year |-> y - 1, day |-> "Nov30", zone |-> "UTC"]

\* The year of the conjunctive query is hard-coded.
AndYear == DateOfYear(2019).year

\* Deviation: the suffix is cut from the front.
IdForEmail_Dev(info, email) ==
   CASE info.fromStart # 0 -> SubSeq(email, 1, info.fromStart)
     [] info.fromStart = 0 /\ info.fromEnd # 0 -> SubSeq(email, 1, info.fromEnd)
     [] OTHER -> <<email>>

IdForEmail(info, email) ==
   CASE info.fromStart # 0 -> SubSeq(email, 1, info.fromStart)
     [] info.fromStart = 0 /\ info.fromEnd # 0 ->
           SubSeq(email, Len(email) - info.fromEnd + 1, Len(email))
     [] OTHER -> <<email>>

\* Whether the address is long enough for the substring that is asked for.
ValidEmail(info, email) ==
   IF info.fromStart # 0 THEN info.fromStart <= Len(email)
                         ELSE info.fromEnd <= Len(email)

\* A name that is not known is no error but leaves the zero value.
AlgoOf(name) == IF name \in KnownAlgos THEN name ELSE NoAlgo

IdForPubKeyAlgo(algo) == <<algo>>

\* MarshalBinary writes the instant and the zone: -1 for UTC, and for any
\* other location, the host's included, the offset in minutes.
IdForCreationTime(time) == <<time.year, time.day, time.zone>>

IdForYearCreationTime(year) == <<year>>

\* The client ignores "not valid" and goes on with a nil id.
TextId(req) == IF ValidEmail(req, req.text) THEN IdForEmail(req, req.text) ELSE <<>>

ClientInput(req) ==
   CASE req.avg -> TextId(req)
     [] req.and /\ ~req.avg -> IdForYearCreationTime(AndYear) \o TextId(req)
     [] ~req.and /\ req.target = "UserId" -> TextId(req)
     [] ~req.and /\ req.target = "PubKeyAlgo" ->
           IdForPubKeyAlgo(AlgoOf(req.algo))
     [] ~req.and /\ req.target = "CreationTime" -> IdForCreationTime(DateOfYear(req.year))

\* Keys whose address is too short are skipped by every query on addresses.
Skipped(req, key) == (req.and \/ req.target = "UserId") /\ ~ValidEmail(req, key.email)

ServerInput(req, key) ==
   CASE req.avg -> IdForEmail(req, key.email)
     [] req.and /\ ~req.avg ->
           IdForYearCreationTime(key.created.year) \o IdForEmail(req, key.email)
     [] ~req.and /\ req.target = "UserId" -> IdForEmail(req, key.email)
     [] ~req.and /\ req.target = "PubKeyAlgo" -> IdForPubKeyAlgo(key.algo)
     [] ~req.and /\ req.target = "CreationTime" -> IdForCreationTime(key.created)
-----------------------------------------------------------------------------
(* What the query means: to the user who asks it, but for two reservations *)
(* that the code has.  A date is a date in UTC, which no key of a key ring *)
(* has, and a name that is not known is that of algorithm 0.               *)

BeginsWith(email, text, n) ==
   n <= Len(email) /\ n <= Len(text) /\ \A j \in 1..n : email[j] = text[j]

EndsWith(email, text, n) ==
   /\ n <= Len(email) /\ n <= Len(text)
   /\ \A j \in 0..(n - 1) : email[Len(email) - j] = text[Len(text) - j]

MatchesText(req, email) ==
   IF req.fromStart # 0 THEN BeginsWith(email, req.text, req.fromStart)
   ELSE IF req.fromEnd # 0 THEN EndsWith(email, req.text, req.fromEnd)
   ELSE email = req.text

SameDate(t, u) == t.year = u.year /\ t.day = u.day /\ t.zone = u.zone

Meant(req, key) ==
   CASE req.avg -> MatchesText(req, key.email)
     [] req.and /\ ~req.avg -> key.created.year = AndYear /\ MatchesText(req, key.email)
     [] ~req.and /\ req.target = "UserId" -> MatchesText(req, key.email)
     [] ~req.and /\ req.target = "PubKeyAlgo" -> key.algo = AlgoOf(req.algo)
     [] ~req.and /\ req.target = "CreationTime" ->
           SameDate(key.created, DateOfYear(req.year))
=============================================================================
