------------------------ MODULE PredicateQueryProofs ------------------------
(***************************************************************************)
(* What a client accepts is true, for every database, query, mask and      *)
(* number of tags: the safety properties of PredicateQuery, for clients    *)
(* whose connections are in order (MapOrder = FALSE).                      *)
(***************************************************************************)
EXTENDS PredicateQuery, DataTheorems

(* A request and a database that the assumptions allow.                    *)
IsRequest(r) ==
  /\ r.fromStart \in Nat /\ r.fromEnd \in Nat /\ r.text \in Seq(Chars)
  /\ r.and \in BOOLEAN /\ r.avg \in BOOLEAN /\ (r.avg => r.and)
  /\ r.target \in {"UserId", "PubKeyAlgo", "CreationTime"}

\* The id of an address that is long enough equals the client's exactly if the
\* address matches the text; one that is too short does not match.
LEMMA TextIds ==
  ASSUME NEW r, IsRequest(r), NEW email \in Seq(Chars)
  PROVE  /\ ValidEmail(r, email) =>
              (IdForEmail(r, email) = TextId(r) <=> MatchesText(r, email))
         /\ ~ValidEmail(r, email) => ~MatchesText(r, email)
<1> USE DEF IsRequest
<1>1. CASE r.fromStart # 0
  <2> DEFINE n == r.fromStart
  <2>1. ASSUME NEW s \in Seq(Chars), n <= Len(s)
        PROVE  /\ Len(SubSeq(s, 1, n)) = n
               /\ \A j \in 1..n : SubSeq(s, 1, n)[j] = s[j]
               /\ SubSeq(s, 1, n) \in Seq(Chars)
    BY <1>1, <2>1
  <2>2. CASE n <= Len(r.text) /\ n <= Len(email)
    <3>1. MatchesText(r, email) <=> \A j \in 1..n : email[j] = r.text[j]
      BY <1>1, <2>2 DEF MatchesText, BeginsWith
    <3>2. IdForEmail(r, email) = SubSeq(email, 1, n) /\ TextId(r) = SubSeq(r.text, 1, n)
      BY <1>1, <2>2 DEF IdForEmail, TextId, ValidEmail
    <3>3. SubSeq(email, 1, n) = SubSeq(r.text, 1, n)
          <=> \A j \in 1..n : email[j] = r.text[j]
      BY <1>1, <2>2, <2>1
    <3>4. ValidEmail(r, email)
      BY <1>1, <2>2 DEF ValidEmail
    <3> QED
      BY <3>1, <3>2, <3>3, <3>4
  <2>3. CASE ~(n <= Len(r.text)) /\ n <= Len(email)
    <3>1. TextId(r) = <<>>
      BY <1>1, <2>3 DEF TextId, ValidEmail
    <3>2. IdForEmail(r, email) = SubSeq(email, 1, n)
      BY <1>1 DEF IdForEmail
    <3>3. SubSeq(email, 1, n) # <<>>
      BY <1>1, <2>1, <2>3
    <3>4. ~MatchesText(r, email) /\ ValidEmail(r, email)
      BY <1>1, <2>3 DEF MatchesText, BeginsWith, ValidEmail
    <3> QED
      BY <3>1, <3>2, <3>3, <3>4
  <2>4. CASE ~(n <= Len(email))
    BY <1>1, <2>4 DEF MatchesText, BeginsWith, ValidEmail
  <2> QED
    BY <2>2, <2>3, <2>4
<1>2. CASE r.fromStart = 0 /\ r.fromEnd # 0
  <2> DEFINE n == r.fromEnd
             Suffix(s) == SubSeq(s, Len(s) - n + 1, Len(s))
  <2>1. ASSUME NEW s \in Seq(Chars), n <= Len(s)
        PROVE  /\ Len(Suffix(s)) = n
               /\ \A j \in 1..n : Suffix(s)[j] = s[Len(s) - n + j]
               /\ Suffix(s) \in Seq(Chars)
    <3>1. n \in Nat /\ n > 0
      BY <1>2
    <3> HIDE DEF n
    <3> QED
      BY ONLY <2>1, <3>1, s \in Seq(Chars)
  <2>2. CASE n <= Len(r.text) /\ n <= Len(email)
    <3>1. MatchesText(r, email)
          <=> \A j \in 0..(n - 1) : email[Len(email) - j] = r.text[Len(r.text) - j]
      BY <1>2, <2>2 DEF MatchesText, EndsWith
    <3>2. IdForEmail(r, email) = Suffix(email) /\ TextId(r) = Suffix(r.text)
      BY <1>2, <2>2 DEF IdForEmail, TextId, ValidEmail
    <3>3. Suffix(email) = Suffix(r.text)
          <=> \A j \in 1..n : Suffix(email)[j] = Suffix(r.text)[j]
      <4> DEFINE a == Suffix(email)
                 b == Suffix(r.text)
      <4>1. /\ a \in Seq(Chars) /\ Len(a) = n
            /\ b \in Seq(Chars) /\ Len(b) = n
        BY <2>2, <2>1
      <4> HIDE DEF a, b
      <4>2. (a = b) <=> \A j \in 1..n : a[j] = b[j]
        BY <4>1
      <4> QED
        BY <4>2 DEF a, b
    <3>4. (\A j \in 1..n : Suffix(email)[j] = Suffix(r.text)[j])
          <=> \A j \in 1..n : email[Len(email) - n + j] = r.text[Len(r.text) - n + j]
      <4> HIDE DEF Suffix
      <4> QED
        BY <2>2, <2>1
    <3>5. (\A j \in 1..n : email[Len(email) - n + j] = r.text[Len(r.text) - n + j])
          <=> \A j \in 0..(n - 1) : email[Len(email) - j] = r.text[Len(r.text) - j]
      <4>1. ASSUME \A j \in 1..n : email[Len(email) - n + j] = r.text[Len(r.text) - n + j],
                   NEW j \in 0..(n - 1)
            PROVE  email[Len(email) - j] = r.text[Len(r.text) - j]
        <5>1. n - j \in 1..n
          BY <1>2
        <5>2. Len(email) - n + (n - j) = Len(email) - j
              /\ Len(r.text) - n + (n - j) = Len(r.text) - j
          BY <1>2
        <5> QED
          BY <4>1, <5>1, <5>2
      <4>2. ASSUME \A j \in 0..(n - 1) : email[Len(email) - j] = r.text[Len(r.text) - j],
                   NEW j \in 1..n
            PROVE  email[Len(email) - n + j] = r.text[Len(r.text) - n + j]
        <5>1. n - j \in 0..(n - 1)
          BY <1>2
        <5>2. Len(email) - (n - j) = Len(email) - n + j
              /\ Len(r.text) - (n - j) = Len(r.text) - n + j
          BY <1>2
        <5> QED
          BY <4>2, <5>1, <5>2
      <4> QED
        BY <4>1, <4>2
    <3>6. ValidEmail(r, email)
      BY <1>2, <2>2 DEF ValidEmail
    <3> QED
      BY <3>1, <3>2, <3>3, <3>4, <3>5, <3>6
  <2>3. CASE ~(n <= Len(r.text)) /\ n <= Len(email)
    <3>1. TextId(r) = <<>>
      BY <1>2, <2>3 DEF TextId, ValidEmail
    <3>2. IdForEmail(r, email) = Suffix(email)
      BY <1>2 DEF IdForEmail
    <3>3. Suffix(email) # <<>>
      BY <1>2, <2>1, <2>3
    <3>4. ~MatchesText(r, email) /\ ValidEmail(r, email)
      BY <1>2, <2>3 DEF MatchesText, EndsWith, ValidEmail
    <3> QED
      BY <3>1, <3>2, <3>3, <3>4
  <2>4. CASE ~(n <= Len(email))
    BY <1>2, <2>4 DEF MatchesText, EndsWith, ValidEmail
  <2> QED
    BY <2>2, <2>3, <2>4
<1>3. CASE r.fromStart = 0 /\ r.fromEnd = 0
  <2>1. ValidEmail(r, email) /\ ValidEmail(r, r.text)
    BY <1>3 DEF ValidEmail
  <2>2. IdForEmail(r, email) = <<email>> /\ TextId(r) = <<r.text>>
    BY <1>3, <2>1 DEF IdForEmail, TextId
  <2>3. MatchesText(r, email) <=> email = r.text
    BY <1>3 DEF MatchesText
  <2> QED
    BY <2>1, <2>2, <2>3
<1> QED
  BY <1>1, <1>2, <1>3

\* Sequences that begin with one element.
LEMMA Prefixed ==
  ASSUME NEW U, NEW a \in U, NEW b \in U, NEW s \in Seq(U), NEW t \in Seq(U)
  PROVE  (<<a>> \o s = <<b>> \o t) => (a = b /\ s = t)
<1>1. ASSUME NEW c \in U, NEW u \in Seq(U)
      PROVE  /\ <<c>> \o u \in Seq(U) /\ Len(<<c>> \o u) = Len(u) + 1
             /\ (<<c>> \o u)[1] = c
             /\ \A j \in 1..Len(u) : (<<c>> \o u)[j + 1] = u[j]
  OBVIOUS
<1>2. ASSUME <<a>> \o s = <<b>> \o t
      PROVE  a = b /\ s = t
  <2>1. a = b /\ Len(s) = Len(t)
    BY <1>1, <1>2
  <2>2. \A j \in 1..Len(s) : s[j] = t[j]
    BY <1>1, <1>2, <2>1
  <2> QED
    BY <2>1, <2>2
<1> QED
  BY <1>2

\* The keys that a query counts: neither skipped nor with another input.
Matched(r, key) == ~Skipped(r, key) /\ ServerInput(r, key) = ClientInput(r)

\* A query counts the keys that it means.
LEMMA IdsMatch ==
  ASSUME NEW r, IsRequest(r), NEW key, key.email \in Seq(Chars)
  PROVE  Matched(r, key) <=> Meant(r, key)
<1> USE DEF Matched
<1>1. /\ r.and \in BOOLEAN /\ r.avg \in BOOLEAN /\ (r.avg => r.and)
      /\ r.target \in {"UserId", "PubKeyAlgo", "CreationTime"}
  BY DEF IsRequest
<1>2. CASE r.avg
  <2>1. Skipped(r, key) <=> ~ValidEmail(r, key.email)
    BY <1>1, <1>2 DEF Skipped
  <2>2. /\ ServerInput(r, key) = IdForEmail(r, key.email)
        /\ ClientInput(r) = TextId(r)
        /\ Meant(r, key) <=> MatchesText(r, key.email)
    BY <1>1, <1>2 DEF ServerInput, ClientInput, Meant
  <2> QED
    BY <2>1, <2>2, TextIds
<1>3. CASE r.and /\ ~r.avg
  <2>1. Skipped(r, key) <=> ~ValidEmail(r, key.email)
    BY <1>3 DEF Skipped
  <2>2. /\ ServerInput(r, key) = <<key.created.year>> \o IdForEmail(r, key.email)
        /\ ClientInput(r) = <<AndYear>> \o TextId(r)
        /\ Meant(r, key) <=> key.created.year = AndYear /\ MatchesText(r, key.email)
    BY <1>3 DEF ServerInput, ClientInput, Meant, IdForYearCreationTime
  <2> DEFINE U == Chars \cup Seq(Chars) \cup {key.created.year, AndYear}
  <2>3. ASSUME NEW s \in Seq(Chars), ValidEmail(r, s)
        PROVE  IdForEmail(r, s) \in Seq(U)
    <3>1. Chars \subseteq U /\ s \in U /\ s \in Seq(U) /\ r.fromStart \in Nat /\ r.fromEnd \in Nat
      BY DEF IsRequest
    <3> HIDE DEF U
    <3>2. CASE r.fromStart # 0
      BY <2>3, <3>1, <3>2 DEF IdForEmail, ValidEmail
    <3>3. CASE r.fromStart = 0 /\ r.fromEnd # 0
      BY <2>3, <3>1, <3>3 DEF IdForEmail, ValidEmail
    <3>4. CASE r.fromStart = 0 /\ r.fromEnd = 0
      BY <3>1, <3>4 DEF IdForEmail
    <3> QED
      BY <3>2, <3>3, <3>4
  <2>4. r.text \in Seq(Chars)
    BY DEF IsRequest
  <2>5. TextId(r) \in Seq(U)
    BY <2>3, <2>4 DEF TextId
  <2>6. key.created.year \in U /\ AndYear \in U
    OBVIOUS
  <2>7. CASE ValidEmail(r, key.email)
    <3>1. IdForEmail(r, key.email) \in Seq(U)
      BY <2>3, <2>7
    <3> HIDE DEF U
    <3>2. ServerInput(r, key) = ClientInput(r)
          <=> key.created.year = AndYear /\ IdForEmail(r, key.email) = TextId(r)
      <4> DEFINE a == key.created.year
                 b == AndYear
                 s == IdForEmail(r, key.email)
                 t == TextId(r)
      <4>1. a \in U /\ b \in U /\ s \in Seq(U) /\ t \in Seq(U)
        BY <2>5, <2>6, <3>1
      <4> HIDE DEF a, b, s, t
      <4>2. (<<a>> \o s = <<b>> \o t) => (a = b /\ s = t)
        BY ONLY <4>1, Prefixed
      <4> QED
        BY <2>2, <4>2 DEF a, b, s, t
    <3> QED
      BY <2>1, <2>2, <2>7, <3>2, TextIds
  <2>8. CASE ~ValidEmail(r, key.email)
    BY <2>1, <2>2, <2>8, TextIds
  <2> QED
    BY <2>7, <2>8
<1>4. CASE ~r.and /\ r.target = "UserId"
  <2>1. Skipped(r, key) <=> ~ValidEmail(r, key.email)
    BY <1>4 DEF Skipped
  <2>2. /\ ServerInput(r, key) = IdForEmail(r, key.email)
        /\ ClientInput(r) = TextId(r)
        /\ Meant(r, key) <=> MatchesText(r, key.email)
    BY <1>1, <1>4 DEF ServerInput, ClientInput, Meant
  <2> QED
    BY <2>1, <2>2, TextIds
<1>5. CASE ~r.and /\ r.target = "PubKeyAlgo"
  <2>1. ~Skipped(r, key)
    BY <1>5 DEF Skipped
  <2>2. /\ ServerInput(r, key) = <<key.algo>>
        /\ ClientInput(r) = <<AlgoOf(r.algo)>>
        /\ Meant(r, key) <=> key.algo = AlgoOf(r.algo)
    BY <1>1, <1>5 DEF ServerInput, ClientInput, Meant, IdForPubKeyAlgo
  <2> QED
    BY <2>1, <2>2
<1>6. CASE ~r.and /\ r.target = "CreationTime"
  <2> DEFINE date == DateOfYear(r.year)
  <2>1. ~Skipped(r, key)
    BY <1>6 DEF Skipped
  <2>2. /\ ServerInput(r, key) = <<key.created.year, key.created.day, key.created.zone>>
        /\ ClientInput(r) = <<date.year, date.day, date.zone>>
        /\ Meant(r, key) <=> SameDate(key.created, date)
    BY <1>1, <1>6 DEF ServerInput, ClientInput, Meant, IdForCreationTime
  <2> HIDE DEF date
  <2> QED
    BY <2>1, <2>2 DEF SameDate
<1> QED
  BY <1>1, <1>2, <1>3, <1>4, <1>5, <1>6
-----------------------------------------------------------------------------
(* Types.                                                                  *)
TInv == TypeOK /\ req \in Requests /\ db \in Databases

\* What the assumptions say of the database in use.
LEMMA DatabaseFacts ==
  ASSUME NEW d \in Databases
  PROVE  /\ Len(d) \in Nat
         /\ \A n \in 1..Len(d) : d[n].email \in Seq(Chars) /\ d[n].created.year \in Int
<1> DEFINE R == {d[n] : n \in 1..Len(d)}
<1>1. d \in Seq(R)
  BY DatabaseAssumption
<1>2. \A n \in 1..Len(d) : d[n].email \in Seq(Chars) /\ d[n].created.year \in Int
  BY DatabaseAssumption
<1> HIDE DEF R
<1> QED
  BY <1>1, <1>2

LEMMA ModPFacts == /\ ModP \in Nat /\ ModP > 1
                   /\ Zero \in Vector
                   /\ ThisYear \in Nat /\ Years \subseteq Nat
                   /\ Tags \in Nat /\ 0 \in Positions
BY QueryConstants DEF Zero, Vector, Years, Positions

LEMMA ShareType ==
  ASSUME TInv, NEW k \in Servers, NEW n \in 1..Len(db)
  PROVE  Share(k, n) \in [Positions -> 0..ModP]
<1>1. ASSUME NEW i \in Servers, NEW j \in Positions
      PROVE  Evaluate(i, n)[j] \in 0..(ModP - 1)
  <2>1. mask[n][j] \in 0..(ModP - 1) /\ point[j] \in 0..(ModP - 1)
    <3>1. mask \in [1 .. Len(db) -> Vector] /\ point \in Vector
      BY Zenon DEF TInv, TypeOK
    <3> QED
      BY ONLY <3>1, n \in 1..Len(db), j \in Positions DEF Vector
  <2>2. (mask[n][j] + point[j]) % ModP \in 0..(ModP - 1)
    <3>1. mask[n][j] + point[j] \in Int
      BY <2>1
    <3> QED
      BY <3>1, ModPFacts, Division
  <2> QED
    BY <2>1, <2>2 DEF Evaluate
<1>2. holder[k] \in Servers
  BY DEF TInv, TypeOK
<1>3. ASSUME NEW j \in Positions
      PROVE  Share(k, n)[j] \in 0..ModP
  BY <1>1, <1>2, <1>3, ModPFacts DEF Share
<1>4. Share(k, n) = [j \in Positions |-> Share(k, n)[j]]
  BY DEF Share
<1> QED
  BY <1>3, <1>4

LEMMA AddType ==
  ASSUME NEW acc \in Vector, NEW v \in [Positions -> Int], NEW factor \in Int
  PROVE  Add(acc, v, factor) \in Vector
<1>1. ASSUME NEW j \in Positions
      PROVE  Add(acc, v, factor)[j] \in 0..(ModP - 1)
  <2>1. acc[j] \in Int /\ v[j] * factor \in Int
    BY DEF Vector
  <2>2. (v[j] * factor) % ModP \in Int
    BY <2>1, ModPFacts, Division
  <2>3. acc[j] + ((v[j] * factor) % ModP) \in Int
    BY <2>1, <2>2
  <2>4. (acc[j] + ((v[j] * factor) % ModP)) % ModP \in 0..(ModP - 1)
    BY <2>3, ModPFacts, Division
  <2> QED
    BY <2>4 DEF Add
<1>2. Add(acc, v, factor) = [j \in Positions |-> Add(acc, v, factor)[j]]
  BY DEF Add
<1> QED
  BY <1>1, <1>2 DEF Vector

\* The totals that the client works with are field elements.
LEMMA TotalType ==
  ASSUME TInv, Len(answers) = 2, NEW field \in {"count", "sum"}, NEW j \in Positions
  PROVE  Total(field)[j] \in 0..(ModP - 1)
<1>1. answers[1][field][j] \in Int /\ answers[2][field][j] \in Int
  <2>1. ASSUME NEW n \in 1..2
        PROVE  answers[n].count \in Vector /\ answers[n].sum \in Vector
    <3> DEFINE R == [server : Servers, count : Vector, sum : Vector]
    <3>1. answers \in Seq(R)
      BY DEF TInv, TypeOK
    <3>2. answers[n] \in R
      <4> HIDE DEF R
      <4> QED
        BY <3>1
    <3> QED
      BY <3>2
  <2>2. ASSUME NEW v \in Vector
        PROVE  v[j] \in Int
    BY DEF Vector
  <2>3. answers[1][field] \in Vector /\ answers[2][field] \in Vector
    BY <2>1
  <2> QED
    BY <2>2, <2>3
<1>2. answers[1][field][j] + answers[2][field][j] \in Int
  BY <1>1
<1>3. (answers[1][field][j] + answers[2][field][j]) % ModP \in 0..(ModP - 1)
  BY <1>2, ModPFacts, Division
<1> QED
  BY <1>3 DEF Total

\* The quotient of two field elements is one.
LEMMA QuotientType ==
  ASSUME NEW a \in 0..(ModP - 1), NEW b \in 0..(ModP - 1), b # 0
  PROVE  a \div b \in 0..(ModP - 1)
<1>1. ModP \in Nat
  BY ModPFacts
<1>2. a \div b \in Int /\ a \div b >= 0 /\ a \div b <= a
  BY <1>1
<1> QED
  BY <1>1, <1>2

LEMMA InitTyped == Init => TInv
<1> SUFFICES ASSUME Init
             PROVE  TInv
  OBVIOUS
<1>1. Len(db) \in Nat
  BY DatabaseFacts DEF Init
<1>2. point \in Vector /\ point[0] \in {0, 1} /\ mask \in [1..Len(db) -> Vector]
  BY ModPFacts DEF Init, Zero
<1>3. next \in [Servers -> 1..(Len(db) + 1)]
  BY <1>1 DEF Init
<1>4. /\ out \in [Servers -> Vector] /\ sum \in [Servers -> Vector]
      /\ seen \in [Servers -> SUBSET Years] /\ holder \in [Servers -> Servers]
  BY ModPFacts DEF Init
<1>5. answers \in Seq([server : Servers, count : Vector, sum : Vector])
  BY DEF Init
<1> QED
  BY <1>2, <1>3, <1>4, <1>5 DEF Init, TInv, TypeOK, Years

LEMMA NextTyped == TInv /\ [Next]_vars => TInv'
<1> SUFFICES ASSUME TInv, [Next]_vars
             PROVE  TInv'
  OBVIOUS
<1> USE DEF TInv
<1>0. Len(db) \in Nat
  BY DatabaseFacts
<1>1. CASE Ask
  <2>1. /\ req' = req /\ db' = db /\ answers' = answers /\ result' = result
        /\ next' = next /\ out' = out /\ sum' = sum /\ crashed' = crashed
        /\ seen' = seen /\ year' = year /\ client' = "waiting"
    BY <1>1 DEF Ask, serverVars
  <2>2. point' \in Vector /\ point'[0] \in {0, 1}
    <3>1. PICK alpha \in [1..Tags -> Alphas] :
             point' = [j \in Positions |-> IF j = 0 THEN 1 ELSE alpha[j]]
      BY <1>1 DEF Ask
    <3>2. ASSUME NEW j \in Positions
          PROVE  (IF j = 0 THEN 1 ELSE alpha[j]) \in 0..(ModP - 1)
      <4>1. CASE j = 0
        BY <4>1, ModPFacts
      <4>2. CASE j # 0
        <5>1. j \in 1..Tags
          BY <4>2, ModPFacts DEF Positions
        <5>2. alpha[j] \in Alphas
          BY <5>1
        <5> QED
          BY <4>2, <5>2, QueryConstants
      <4> QED
        BY <4>1, <4>2
    <3> QED
      BY <3>1, <3>2, ModPFacts DEF Vector
  <2>3. mask' \in [1..Len(db') -> Vector]
    <3>1. [Positions -> Masks] \subseteq Vector
      BY QueryConstants DEF Vector
    <3>2. mask' \in [1..Len(db) -> [Positions -> Masks]]
      BY <1>1 DEF Ask
    <3> QED
      BY <2>1, <3>1, <3>2
  <2>4. holder' \in [Servers -> Servers]
    <3>1. holder' \in {[k \in Servers |-> k], [k \in Servers |-> 1 - k]}
      BY <1>1 DEF Ask
    <3>2. \A k \in Servers : 1 - k \in Servers
      BY DEF Servers
    <3> QED
      BY <3>1, <3>2
  <2> QED
    BY <2>1, <2>2, <2>3, <2>4 DEF TypeOK
<1>2. CASE Reconstruct
  <2>1. UNCHANGED <<sharedVars, answers, serverVars, year>> /\ Len(answers) = 2
    BY <1>2 DEF Reconstruct
  <2>2. client' \in {"accepted", "rejected", "panicked"}
    BY <1>2 DEF Reconstruct, End
  <2>3. result' \in 0..(ModP - 1) \cup {None}
    <3>1. Total("count")[0] \in 0..(ModP - 1) /\ Total("sum")[0] \in 0..(ModP - 1)
      BY <2>1, TotalType, ModPFacts
    <3>2. \/ result' = Total("count")[0] \/ result' = None
          \/ result' = Total("sum")[0] \div Total("count")[0] /\ Total("count")[0] # 0
      BY <1>2 DEF Reconstruct, End
    <3>3. Total("count")[0] # 0 =>
             Total("sum")[0] \div Total("count")[0] \in 0..(ModP - 1)
      <4> DEFINE a == Total("sum")[0]
                 b == Total("count")[0]
      <4>1. a \in 0..(ModP - 1) /\ b \in 0..(ModP - 1)
        BY <3>1
      <4> HIDE DEF a, b
      <4>2. b # 0 => a \div b \in 0..(ModP - 1)
        BY <4>1, QuotientType
      <4> QED
        BY <4>2 DEF a, b
    <3> QED
      BY <3>2, <3>3, <3>1
  <2> QED
    BY <2>1, <2>2, <2>3 DEF TypeOK, sharedVars, serverVars
<1>3. CASE NewYear
  <2>1. UNCHANGED <<sharedVars, clientVars, serverVars>> /\ year' \in Years
    BY <1>3 DEF NewYear, Years
  <2> QED
    BY <2>1 DEF TypeOK, sharedVars, clientVars, serverVars
<1>4. ASSUME NEW k \in Servers, Receive(k)
      PROVE  TInv'
  <2>1. UNCHANGED <<sharedVars, client, result, serverVars, year>>
    BY <1>4 DEF Receive
  <2>2. [server |-> k, count |-> out[k], sum |-> sum[k]]
           \in [server : Servers, count : Vector, sum : Vector]
    BY DEF TypeOK
  <2>3. answers' = Append(answers, [server |-> k, count |-> out[k], sum |-> sum[k]])
    BY <1>4 DEF Receive
  <2>4. answers' \in Seq([server : Servers, count : Vector, sum : Vector])
    BY <2>2, <2>3 DEF TypeOK
  <2> QED
    BY <2>1, <2>4 DEF TypeOK, sharedVars, serverVars
<1>5. ASSUME NEW k \in Servers, RpcFails(k)
      PROVE  TInv'
  BY <1>5 DEF RpcFails, TypeOK, sharedVars, serverVars
<1>6. ASSUME NEW k \in Servers, AtKey(k), Advance(k), year \in Years
      PROVE  /\ next' \in [Servers -> 1..(Len(db) + 1)]
             /\ UNCHANGED <<sharedVars, clientVars, crashed, year>>
  BY <1>0, <1>6 DEF AtKey, Advance, TypeOK
<1>7. ASSUME NEW k \in Servers, SkipKey(k)
      PROVE  TInv'
  <2>1. AtKey(k) /\ Advance(k) /\ UNCHANGED <<out, sum, seen>>
    BY <1>7 DEF SkipKey
  <2> QED
    BY <1>6, <2>1 DEF TypeOK, sharedVars, clientVars
<1>8. ASSUME NEW k \in Servers, SkipFuture(k)
      PROVE  TInv'
  <2>1. AtKey(k) /\ Advance(k) /\ UNCHANGED <<out, sum>>
        /\ seen' = [seen EXCEPT ![k] = @ \cup {year}]
    BY <1>8 DEF SkipFuture
  <2>2. seen' \in [Servers -> SUBSET Years]
    BY <2>1 DEF TypeOK
  <2> QED
    BY <1>6, <2>1, <2>2 DEF TypeOK, sharedVars, clientVars
<1>9. ASSUME NEW k \in Servers, CountKey(k)
      PROVE  TInv'
  <2>1. /\ AtKey(k) /\ Advance(k)
        /\ out' = [out EXCEPT ![k] = Add(@, Share(k, next[k]), 1)]
    BY <1>9 DEF CountKey
  <2>2. next[k] \in 1..Len(db)
    BY <1>0, <2>1 DEF AtKey, TypeOK
  <2>3. Share(k, next[k]) \in [Positions -> Int]
    <3>1. Share(k, next[k]) \in [Positions -> 0..ModP]
      BY <2>2, ShareType
    <3>2. 0..ModP \subseteq Int
      BY ModPFacts
    <3> QED
      BY <3>1, <3>2
  <2>4. out' \in [Servers -> Vector]
    <3>1. out[k] \in Vector /\ 1 \in Int
      BY DEF TypeOK
    <3>2. Add(out[k], Share(k, next[k]), 1) \in Vector
      BY <2>3, <3>1, AddType
    <3> QED
      BY <2>1, <3>2 DEF TypeOK
  <2>5. CASE ~req.avg /\ UNCHANGED <<sum, seen>>
    BY <1>6, <2>1, <2>4, <2>5 DEF TypeOK, sharedVars, clientVars
  <2>6. CASE /\ sum' = [sum EXCEPT ![k] = Add(@, Share(k, next[k]), Age(Key(k)))]
             /\ seen' = [seen EXCEPT ![k] = @ \cup {year}]
    <3>1. Age(Key(k)) \in Int
      BY <2>2, DatabaseFacts, ModPFacts DEF Age, Key, TypeOK
    <3>2. Add(sum[k], Share(k, next[k]), Age(Key(k))) \in Vector
      BY <2>3, <3>1, AddType DEF TypeOK
    <3>3. sum' \in [Servers -> Vector] /\ seen' \in [Servers -> SUBSET Years]
      BY <2>6, <3>2 DEF TypeOK
    <3> QED
      BY <1>6, <2>1, <2>4, <3>3 DEF TypeOK, sharedVars, clientVars
  <2> QED
    BY <1>9, <2>5, <2>6 DEF CountKey
<1>10. ASSUME NEW k \in Servers, EvaluationPanics(k)
       PROVE  TInv'
  <2>1. crashed' = crashed \cup {k}
        /\ UNCHANGED <<sharedVars, clientVars, next, out, sum, seen, year>>
    BY <1>10 DEF EvaluationPanics
  <2> QED
    BY <2>1 DEF TypeOK, sharedVars, clientVars
<1>11. CASE UNCHANGED vars
  BY <1>11 DEF TypeOK, vars, sharedVars, clientVars, serverVars
<1> QED
  BY <1>1, <1>2, <1>3, <1>4, <1>5, <1>7, <1>8, <1>9, <1>10, <1>11
     DEF Next, ServerStep, Finished

\* Accumulators and answers are always vectors of field elements: no server
\* and no client computes with a number that lib/field does not know.
THEOREM TypeCorrect == Spec => []TypeOK
<1>1. TInv => TypeOK
  BY DEF TInv
<1> QED
  BY <1>1, InitTyped, NextTyped, PTL DEF Spec
-----------------------------------------------------------------------------
(* Sums over the keys of the database.                                     *)
AgesIn(d, y) == [n \in 1..Len(d) |-> y - d[n].created.year]

\* The two sums over ages that the properties and the assumptions state.
LEMMA AgesSum ==
  ASSUME NEW d \in Databases, NEW y \in Years, NEW S \in SUBSET (1..Len(d))
  PROVE  MapThenSumSet(LAMBDA n : y - d[n].created.year, S) = SumOf(AgesIn(d, y), S)
<1> DEFINE f == AgesIn(d, y)
           Eq(g) == g = [s \in SUBSET S |-> IF s = {} THEN 0
                              ELSE (LET x == CHOOSE x \in s : TRUE
                                    IN  (y - d[x].created.year) + g[s \ {x}])]
           iter  == CHOOSE g : Eq(g)
           ch    == [s \in SUBSET S |-> CHOOSE x \in s : TRUE]
<1>1. MapThenSumSet(LAMBDA n : y - d[n].created.year, S) = iter[S]
  BY DEF MapThenSumSet, MapThenFoldSet
<1>2. Chooses(ch, S)
  BY DEF Chooses
<1>3. ASSUME NEW g
      PROVE  Eq(g) <=> IsAdder(g, S, f, ch)
  <2>1. ASSUME NEW s \in SUBSET S
        PROVE  (IF s = {} THEN 0 ELSE (LET x == CHOOSE x \in s : TRUE
                                       IN  (y - d[x].created.year) + g[s \ {x}]))
               = (IF s = {} THEN 0 ELSE f[ch[s]] + g[s \ {ch[s]}])
    <3>1. CASE s = {}
      BY <3>1
    <3>2. CASE s # {}
      <4>1. ch[s] = CHOOSE x \in s : TRUE
        OBVIOUS
      <4>2. ch[s] \in 1..Len(d)
        BY <1>2, <3>2 DEF Chooses
      <4>3. f[ch[s]] = y - d[ch[s]].created.year
        BY <4>2 DEF AgesIn
      <4> QED
        BY <3>2, <4>1, <4>3
    <3> QED
      BY <3>1, <3>2
  <2> QED
    BY <2>1 DEF IsAdder
<1>4. IsFiniteSet(S) /\ f \in [1..Len(d) -> Int]
  <2>1. Len(d) \in Nat /\ \A n \in 1..Len(d) : d[n].created.year \in Int
    BY DatabaseFacts
  <2>2. IsFiniteSet(1..Len(d))
    BY <2>1, FS_Interval
  <2>3. IsFiniteSet(S)
    BY <2>2, FS_Subset
  <2>4. y \in Int
    BY ModPFacts
  <2> QED
    BY <2>1, <2>3, <2>4 DEF AgesIn
<1>5. \A s \in SUBSET S : s \in SUBSET (1..Len(d))
  OBVIOUS
<1>6. PICK h : IsSum(h, S, [n \in S |-> f[n]])
  <2>1. [n \in S |-> f[n]] \in [S -> Int]
    BY <1>4
  <2> QED
    BY <1>4, <2>1, SumExists
<1>7. IsSum(h, S, f)
  BY <1>6 DEF IsSum
<1> HIDE DEF Eq, ch, f
<1>8. Eq(h)
  BY <1>2, <1>3, <1>7, SumIsAdder
<1>9. Eq(iter)
  BY <1>8
<1> HIDE DEF iter
<1>10. iter = h
  BY <1>2, <1>3, <1>4, <1>7, <1>9, AdderIsSum
<1>11. SumOf(f, S) = h[S]
  BY <1>4, <1>7, SumOfIsSum
<1> QED
  BY <1>1, <1>10, <1>11 DEF f

\* What fits the field.
LEMMA FieldFacts ==
  ASSUME NEW d \in Databases, NEW y \in Years
  PROVE  /\ Len(d) < ModP
         /\ SumOf(AgesIn(d, y), {n \in 1..Len(d) : y >= d[n].created.year}) < ModP
<1> DEFINE S == {n \in 1..Len(d) : y >= d[n].created.year}
<1>1. Len(d) < ModP
  BY FieldAssumption
<1>2. MapThenSumSet(LAMBDA n : y - d[n].created.year, S) < ModP
  BY FieldAssumption
<1>3. MapThenSumSet(LAMBDA n : y - d[n].created.year, S) = SumOf(AgesIn(d, y), S)
  BY AgesSum
<1> QED
  BY <1>1, <1>2, <1>3
-----------------------------------------------------------------------------
(* The inductive invariant.                                                *)
Keys == 1..Len(db)
Ones == [n \in Keys |-> 1]
Ages(y) == AgesIn(db, y)

\* What server k adds up at position j, every key with its weight.
Shares(k, j, w) == [n \in Keys |-> Share(k, n)[j] * w[n]]

\* The keys that server k has passed and not left out, in the year y.
Folded(k, y) == {n \in 1..(next[k] - 1) : /\ ~Skipped(req, db[n])
                                          /\ req.avg => y >= db[n].created.year}

\* The accumulators are the sums over these keys.
AccumulatorInv ==
  \A k \in Servers, y \in Years, j \in Positions : seen[k] \subseteq {y} =>
     /\ out[k][j] = SumOf(Shares(k, j, Ones), Folded(k, y)) % ModP
     /\ req.avg => sum[k][j] = SumOf(Shares(k, j, Ages(y)), Folded(k, y)) % ModP

\* Nothing has been computed before the query is sent.
StartInv == client = "idle" =>
  \A k \in Servers : next[k] = 1 /\ out[k] = Zero /\ sum[k] = Zero /\ seen[k] = {}

\* Every answer is what a server has ended with, one of each.
AnswersInv ==
  /\ \A n \in 1..Len(answers) : LET k == answers[n].server
                                IN  /\ next[k] = Len(db) + 1
                                    /\ answers[n].count = out[k]
                                    /\ answers[n].sum = sum[k]
  /\ \A m, n \in 1..Len(answers) : answers[m].server = answers[n].server => m = n

\* Only an average looks at the clock.
SeenInv == ~req.avg => \A k \in Servers : seen[k] = {}

\* Every server has the FSS key of its number, and the client knows the point.
SentInv == /\ holder = [k \in Servers |-> k]
           /\ client # "idle" => point[0] = 1

\* The keys that the query counts.
MatchedKeys == {n \in Keys : Matched(req, db[n])}

\* What the client has accepted, with the sum over the ages as a sum over a
\* function (AgesSum turns it into the one of AcceptedIsTrue).
AcceptedInv ==
  client = "accepted" =>
    IF ~req.avg THEN result = Cardinality(MatchedKeys)
    ELSE \A y \in Years : OneYear(y) =>
           result = SumOf(Ages(y), Averaged(y)) \div Cardinality(Averaged(y))

IInv == /\ TInv
        /\ AccumulatorInv /\ StartInv /\ AnswersInv /\ SeenInv /\ SentInv
        /\ AcceptedInv /\ HonestIsAccepted /\ PanicMeansEmpty
-----------------------------------------------------------------------------
(* What the two servers' sums add up to.                                   *)
Hits == {n \in Keys : ServerInput(req, db[n]) = ClientInput(req)}

\* Weights, and the shares of every server, are numbers.
LEMMA WeightTypes ==
  ASSUME TInv
  PROVE  /\ Len(db) \in Nat /\ IsFiniteSet(Keys)
         /\ Ones \in [Keys -> Int]
         /\ \A y \in Years : Ages(y) \in [Keys -> Int]
         /\ \A k \in Servers, j \in Positions : \A w \in [Keys -> Int] :
               Shares(k, j, w) \in [Keys -> Int]
<1>1. Len(db) \in Nat /\ \A n \in 1..Len(db) : db[n].created.year \in Int
  BY DatabaseFacts DEF TInv
<1>2. IsFiniteSet(Keys)
  <2>1. 1 \in Int /\ Len(db) \in Int
    BY <1>1
  <2> QED
    BY <2>1, FS_Interval DEF Keys
<1>3. ASSUME NEW y \in Years
      PROVE  Ages(y) \in [Keys -> Int]
  <2>1. y \in Int
    BY ModPFacts
  <2> QED
    BY <1>1, <2>1 DEF Ages, AgesIn, Keys
<1>4. ASSUME NEW k \in Servers, NEW j \in Positions, NEW w \in [Keys -> Int]
      PROVE  Shares(k, j, w) \in [Keys -> Int]
  <2>1. ASSUME NEW n \in Keys
        PROVE  Share(k, n)[j] * w[n] \in Int
    <3>1. Share(k, n)[j] \in Int /\ w[n] \in Int
      BY ShareType, ModPFacts DEF Keys
    <3> QED
      BY <3>1
  <2> QED
    BY <2>1 DEF Shares
<1>5. Ones \in [Keys -> Int]
  BY DEF Ones
<1> QED
  BY <1>1, <1>2, <1>3, <1>4, <1>5

\* At one key: the two shares differ by the point, or not at all.
LEMMA SharesOfKey ==
  ASSUME TInv, SentInv, NEW n \in Keys, NEW j \in Positions, NEW w \in Int
  PROVE  \E q \in Int : Share(0, n)[j] * w + Share(1, n)[j] * w
                          = q * ModP + point[j] * (IF n \in Hits THEN w ELSE 0)
<1> DEFINE m == mask[n][j]
           p == point[j]
<1>1. m \in Int /\ p \in Int
  <2>1. \A v \in Vector : v[j] \in Int
    BY DEF Vector
  <2>2. mask[n] \in Vector /\ point \in Vector
    BY DEF TInv, TypeOK, Keys
  <2> QED
    BY <2>1, <2>2
<1>2. holder[0] = 0 /\ holder[1] = 1
  BY DEF SentInv, Servers
<1>3. Share(1, n)[j] = ModP - m
  BY <1>2 DEF Share, Evaluate
<1>4. CASE n \in Hits
  <2>1. Share(0, n)[j] = (m + p) % ModP
    BY <1>2, <1>4 DEF Share, Evaluate, Hits
  <2> HIDE DEF m, p
  <2>2. ModP \in Nat /\ ModP > 0 /\ m + p \in Int
    BY <1>1, ModPFacts
  <2> DEFINE r == (m + p) % ModP
  <2>3. r \in Int
    BY <2>2, Division
  <2>4. PICK q \in Int : m + p = q * ModP + r
    BY <2>2, Division
  <2> HIDE DEF r
  <2>5. r * w + (ModP - m) * w = ((1 - q) * w) * ModP + p * w
    <3>1. r = (m + p) - q * ModP
      BY <1>1, <2>3, <2>4, ModPFacts
    <3>2. r * w = ((m + p) - q * ModP) * w
      BY <3>1
    <3> QED
      BY <1>1, <3>2, ModPFacts
  <2>6. (1 - q) * w \in Int
    OBVIOUS
  <2> QED
    BY <1>3, <1>4, <2>1, <2>5, <2>6 DEF r, p
<1>5. CASE n \notin Hits
  <2>1. Share(0, n)[j] = m
    BY <1>2, <1>5 DEF Share, Evaluate, Hits
  <2> HIDE DEF m, p
  <2>2. m * w + (ModP - m) * w = w * ModP + p * 0
    BY <1>1, ModPFacts
  <2> QED
    BY <1>3, <1>5, <2>1, <2>2 DEF p
<1> QED
  BY <1>4, <1>5

\* Over any keys, with any weights: the point times the weights of the hits.
LEMMA SharesOfKeys ==
  ASSUME TInv, SentInv, NEW j \in Positions, NEW w \in [Keys -> Int],
         NEW S \in SUBSET Keys
  PROVE  ((SumOf(Shares(0, j, w), S) % ModP) + (SumOf(Shares(1, j, w), S) % ModP)) % ModP
           = (point[j] * SumOf(w, S \cap Hits)) % ModP
<1> DEFINE T == Keys
           e == [n \in T |-> IF n \in Hits THEN w[n] ELSE 0]
           f == Shares(0, j, w)
           g == Shares(1, j, w)
           p == point[j]
<1>1. /\ IsFiniteSet(T) /\ f \in [T -> Int] /\ g \in [T -> Int]
      /\ e \in [T -> Int] /\ p \in Int
  <2>1. 0 \in Servers /\ 1 \in Servers
    BY DEF Servers
  <2>2. e \in [T -> Int]
    OBVIOUS
  <2>3. p \in Int
    BY DEF TInv, TypeOK, Vector
  <2> QED
    BY <2>1, <2>2, <2>3, WeightTypes
<1>2. ASSUME NEW x \in T
      PROVE  \E q \in Int : f[x] + g[x] = q * ModP + p * e[x]
  <2>1. \E q \in Int : Share(0, x)[j] * w[x] + Share(1, x)[j] * w[x]
                          = q * ModP + p * (IF x \in Hits THEN w[x] ELSE 0)
    <3>1. w[x] \in Int
      OBVIOUS
    <3> QED
      BY <3>1, SharesOfKey
  <2>2. f[x] = Share(0, x)[j] * w[x] /\ g[x] = Share(1, x)[j] * w[x]
    BY DEF Shares
  <2> QED
    BY <2>1, <2>2
<1>3. \A x \in T : e[x] = IF x \in Hits THEN w[x] ELSE 0
  OBVIOUS
<1> HIDE DEF e, f, g, p
<1>4. S \in SUBSET T /\ ModP \in Nat /\ ModP > 0 /\ w \in [T -> Int]
  BY ModPFacts
<1>11. AddUp(f, g, e, p, ModP, T)
  BY <1>1, <1>2, <1>4 DEF AddUp
<1>12. Selects(T, w, Hits, e)
  BY <1>1, <1>4 DEF Selects, e
<1>5. PICK q \in Int : SumOf(f, S) + SumOf(g, S) = q * ModP + p * SumOf(e, S)
  BY <1>4, <1>11, SumsModulo
<1>6. SumOf(e, S) = SumOf(w, S \cap Hits)
  BY <1>4, <1>12, SumOfSelected
<1>7. SumOf(f, S) \in Int /\ SumOf(g, S) \in Int /\ SumOf(e, S) \in Int
  BY <1>1, <1>4, SumOfFacts
<1> DEFINE a == SumOf(f, S)
           b == SumOf(g, S)
           c == SumOf(e, S)
<1>8. a \in Int /\ b \in Int /\ c \in Int /\ a + b = q * ModP + p * c
  BY <1>5, <1>7
<1> HIDE DEF a, b, c
<1>9. ((a % ModP) + (b % ModP)) % ModP = (a + b) % ModP
  <2>1. b % ModP \in Int
    BY <1>4, <1>8, Division
  <2>2. ((a % ModP) + (b % ModP)) % ModP = (a + (b % ModP)) % ModP
    <3> DEFINE y == b % ModP
    <3>1. y \in Int
      BY <2>1
    <3> HIDE DEF y
    <3>2. ((a % ModP) + y) % ModP = (a + y) % ModP
      BY ONLY <1>4, <1>8, <3>1, ModAdd
    <3> QED
      BY <3>2, Zenon DEF y
  <2>3. (a + (b % ModP)) % ModP = (a + b) % ModP
    BY ONLY <1>4, <1>8, ModAdd, Zenon
  <2> QED
    BY <2>2, <2>3
<1>10. (a + b) % ModP = (p * c) % ModP
  <2>1. p * c \in Int
    BY <1>1, <1>8
  <2> QED
    BY <1>4, <1>8, <2>1, ModMultiple, ZenonT(60)
<1> QED
  BY <1>6, <1>9, <1>10 DEF a, b, c, f, g, p

\* The keys that both servers have folded, when they have answered, and that
\* hit, are those that the query counts.
Meaning(y) == IF req.avg THEN Averaged(y) ELSE MatchedKeys

\* The keys that a query counts are those that it means.
LEMMA MatchedMeant ==
  ASSUME TInv
  PROVE  /\ IsRequest(req)
         /\ MatchedKeys = Counted
<1>1. IsRequest(req)
  BY RequestAssumption DEF IsRequest, TInv
<1>2. \A n \in Keys : db[n].email \in Seq(Chars)
  BY DatabaseFacts DEF TInv, Keys
<1>3. \A n \in Keys : Matched(req, db[n]) <=> Meant(req, db[n])
  BY <1>1, <1>2, IdsMatch
<1> QED
  BY <1>1, <1>3 DEF MatchedKeys, Counted, Keys

LEMMA FoldedHits ==
  ASSUME TInv, NEW y \in Years, NEW k \in Servers, next[k] = Len(db) + 1
  PROVE  /\ Folded(k, y) \in SUBSET Keys
         /\ Folded(k, y) \cap Hits = Meaning(y)
<1>1. Len(db) \in Nat
  BY DatabaseFacts DEF TInv
<1>2. 1..(next[k] - 1) = Keys
  BY <1>1 DEF Keys
<1>3. \A n : n \in Folded(k, y) \cap Hits
             <=> n \in MatchedKeys /\ (req.avg => y >= db[n].created.year)
  BY <1>2 DEF Folded, Hits, MatchedKeys, Matched
<1>4. MatchedKeys = Counted
  BY MatchedMeant
<1>5. \A n : n \in Meaning(y) <=> n \in MatchedKeys /\ (req.avg => y >= db[n].created.year)
  BY <1>4 DEF Meaning, Averaged
<1> QED
  BY <1>2, <1>3, <1>5 DEF Folded

\* What the client adds up, in any order of the answers.
LEMMA TotalIsSum ==
  ASSUME TInv, AnswersInv, Len(answers) = 2, NEW j \in Positions
  PROVE  /\ next[0] = Len(db) + 1 /\ next[1] = Len(db) + 1
         /\ Total("count")[j] = (out[0][j] + out[1][j]) % ModP
         /\ Total("sum")[j] = (sum[0][j] + sum[1][j]) % ModP
<1> DEFINE a == answers[1].server
           b == answers[2].server
<1>1. a \in Servers /\ b \in Servers
  <2> DEFINE R == [server : Servers, count : Vector, sum : Vector]
  <2>1. answers \in Seq(R)
    BY DEF TInv, TypeOK
  <2>2. answers[1] \in R /\ answers[2] \in R
    <3> HIDE DEF R
    <3>1. 1 \in 1..Len(answers) /\ 2 \in 1..Len(answers)
      OBVIOUS
    <3> QED
      BY <2>1, <3>1, ElementOfSeq, Zenon
  <2> QED
    BY <2>2
<1>2. a # b
  <2>1. 1 \in 1..Len(answers) /\ 2 \in 1..Len(answers) /\ 1 # 2
    OBVIOUS
  <2> QED
    BY <2>1 DEF AnswersInv
<1>3. /\ next[a] = Len(db) + 1 /\ answers[1].count = out[a] /\ answers[1].sum = sum[a]
      /\ next[b] = Len(db) + 1 /\ answers[2].count = out[b] /\ answers[2].sum = sum[b]
  BY DEF AnswersInv
<1>4. \A k \in Servers : out[k][j] \in Int /\ sum[k][j] \in Int
  BY DEF TInv, TypeOK, Vector
<1>5. /\ Total("count")[j] = (out[a][j] + out[b][j]) % ModP
      /\ Total("sum")[j] = (sum[a][j] + sum[b][j]) % ModP
  BY <1>3 DEF Total
<1> HIDE DEF a, b
<1>6. CASE a = 0 /\ b = 1
  BY <1>3, <1>5, <1>6
<1>7. CASE a = 1 /\ b = 0
  <2>1. /\ out[1][j] + out[0][j] = out[0][j] + out[1][j]
        /\ sum[1][j] + sum[0][j] = sum[0][j] + sum[1][j]
    BY <1>4 DEF Servers
  <2> QED
    BY <1>3, <1>5, <1>7, <2>1
<1> QED
  BY <1>1, <1>2, <1>6, <1>7 DEF Servers

LEMMA Totals ==
  ASSUME TInv, AccumulatorInv, AnswersInv, SentInv, Len(answers) = 2,
         NEW y \in Years, OneYear(y), NEW j \in Positions
  PROVE  /\ Total("count")[j] = (point[j] * SumOf(Ones, Meaning(y))) % ModP
         /\ req.avg =>
              Total("sum")[j] = (point[j] * SumOf(Ages(y), Meaning(y))) % ModP
<1>1. /\ next[0] = Len(db) + 1 /\ next[1] = Len(db) + 1
      /\ Total("count")[j] = (out[0][j] + out[1][j]) % ModP
      /\ Total("sum")[j] = (sum[0][j] + sum[1][j]) % ModP
  BY TotalIsSum
<1>2. 0 \in Servers /\ 1 \in Servers
  BY DEF Servers
<1>3. Folded(0, y) = Folded(1, y)
  BY <1>1 DEF Folded
<1>4. Folded(0, y) \in SUBSET Keys /\ Folded(0, y) \cap Hits = Meaning(y)
  BY <1>1, <1>2, FoldedHits
<1>5. \A k \in Servers :
         /\ out[k][j] = SumOf(Shares(k, j, Ones), Folded(k, y)) % ModP
         /\ req.avg => sum[k][j] = SumOf(Shares(k, j, Ages(y)), Folded(k, y)) % ModP
  BY DEF AccumulatorInv, OneYear
<1>6. Total("count")[j] = (point[j] * SumOf(Ones, Meaning(y))) % ModP
  <2>1. Ones \in [Keys -> Int]
    BY WeightTypes
  <2>2. ((SumOf(Shares(0, j, Ones), Folded(0, y)) % ModP)
           + (SumOf(Shares(1, j, Ones), Folded(0, y)) % ModP)) % ModP
          = (point[j] * SumOf(Ones, Folded(0, y) \cap Hits)) % ModP
    BY <1>4, <2>1, SharesOfKeys
  <2>3. /\ out[0][j] = SumOf(Shares(0, j, Ones), Folded(0, y)) % ModP
        /\ out[1][j] = SumOf(Shares(1, j, Ones), Folded(0, y)) % ModP
    BY <1>2, <1>3, <1>5
  <2>4. (out[0][j] + out[1][j]) % ModP
          = (point[j] * SumOf(Ones, Folded(0, y) \cap Hits)) % ModP
    <3> DEFINE a == SumOf(Shares(0, j, Ones), Folded(0, y)) % ModP
               b == SumOf(Shares(1, j, Ones), Folded(0, y)) % ModP
               c == (point[j] * SumOf(Ones, Folded(0, y) \cap Hits)) % ModP
    <3>1. out[0][j] = a /\ out[1][j] = b
      BY <2>3
    <3>2. (a + b) % ModP = c
      BY <2>2
    <3> HIDE DEF a, b, c
    <3>3. (out[0][j] + out[1][j]) % ModP = c
      BY <3>1, <3>2
    <3> QED
      BY <3>3 DEF c
  <2> QED
    BY <1>1, <1>4, <2>4, Zenon
<1>7. ASSUME req.avg
      PROVE  Total("sum")[j] = (point[j] * SumOf(Ages(y), Meaning(y))) % ModP
  <2>1. Ages(y) \in [Keys -> Int]
    BY WeightTypes
  <2>2. ((SumOf(Shares(0, j, Ages(y)), Folded(0, y)) % ModP)
           + (SumOf(Shares(1, j, Ages(y)), Folded(0, y)) % ModP)) % ModP
          = (point[j] * SumOf(Ages(y), Folded(0, y) \cap Hits)) % ModP
    BY <1>4, <2>1, SharesOfKeys
  <2>3. /\ sum[0][j] = SumOf(Shares(0, j, Ages(y)), Folded(0, y)) % ModP
        /\ sum[1][j] = SumOf(Shares(1, j, Ages(y)), Folded(0, y)) % ModP
    BY <1>2, <1>3, <1>5, <1>7
  <2>4. (sum[0][j] + sum[1][j]) % ModP
          = (point[j] * SumOf(Ages(y), Folded(0, y) \cap Hits)) % ModP
    <3> DEFINE a == SumOf(Shares(0, j, Ages(y)), Folded(0, y)) % ModP
               b == SumOf(Shares(1, j, Ages(y)), Folded(0, y)) % ModP
               c == (point[j] * SumOf(Ages(y), Folded(0, y) \cap Hits)) % ModP
    <3>1. sum[0][j] = a /\ sum[1][j] = b
      BY <2>3
    <3>2. (a + b) % ModP = c
      BY <2>2
    <3> HIDE DEF a, b, c
    <3>3. (sum[0][j] + sum[1][j]) % ModP = c
      BY <3>1, <3>2
    <3> QED
      BY <3>3 DEF c
  <2> QED
    BY <1>1, <1>4, <2>4, Zenon
<1> QED
  BY <1>6, <1>7

\* The tags of a multiple of the point match.
LEMMA TagsOfMultiple ==
  ASSUME TInv, point[0] = 1, NEW c \in Nat, c < ModP, NEW v,
         \A j \in Positions : v[j] = (point[j] * c) % ModP
  PROVE  v[0] = c /\ TagsMatch(v)
<1>1. ModP \in Nat /\ ModP > 0 /\ 0 \in Positions
  BY ModPFacts
<1>2. v[0] = (1 * c) % ModP
  BY <1>1
<1>3. (1 * c) % ModP = c
  <2>1. ASSUME NEW m \in Nat, c < m
        PROVE  (1 * c) % m = c
    BY <2>1
  <2> QED
    BY <1>1, <2>1
<1>4. ASSUME NEW j \in 1..Tags
      PROVE  (v[0] * point[j]) % ModP = v[j]
  <2>1. j \in Positions
    BY ModPFacts DEF Positions
  <2>2. point[j] \in Int
    BY <2>1 DEF TInv, TypeOK, Vector
  <2>3. c * point[j] = point[j] * c
    BY <2>2
  <2> QED
    BY <1>2, <1>3, <2>1, <2>3
<1> QED
  BY <1>2, <1>3, <1>4 DEF TagsMatch
-----------------------------------------------------------------------------
(* A server's step over one key.                                           *)

\* Folding one more key adds it to the sum.
LEMMA AddFolds ==
  ASSUME TInv, NEW k \in Servers, NEW n \in Keys, NEW j \in Positions,
         NEW w \in [Keys -> Int], NEW F \in SUBSET Keys, n \notin F,
         NEW acc, acc[j] = SumOf(Shares(k, j, w), F) % ModP,
         NEW factor, factor = w[n]
  PROVE  Add(acc, Share(k, n), factor)[j] = SumOf(Shares(k, j, w), F \cup {n}) % ModP
<1> DEFINE f == Shares(k, j, w)
           a == SumOf(f, F)
           b == Share(k, n)[j] * w[n]
<1>1. f \in [Keys -> Int] /\ IsFiniteSet(Keys) /\ f[n] = b
  BY WeightTypes DEF Shares
<1>2. b \in Int
  BY <1>1
<1> HIDE DEF f
<1>3. a \in Int /\ SumOf(f, F \cup {n}) = f[n] + a
  BY <1>1, SumOfFacts
<1>4. Add(acc, Share(k, n), factor)[j] = ((a % ModP) + (b % ModP)) % ModP
  BY DEF Add, f
<1> HIDE DEF a, b
<1>5. ModP \in Nat /\ ModP > 0
  BY ModPFacts
<1>6. b % ModP \in Int
  BY <1>2, <1>5, Division
<1>7. ((a % ModP) + (b % ModP)) % ModP = (a + (b % ModP)) % ModP
  BY <1>3, <1>5, <1>6, ModAdd
<1>8. (a + (b % ModP)) % ModP = (a + b) % ModP
  BY <1>2, <1>3, <1>5, ModAdd
<1>9. SumOf(f, F \cup {n}) = a + b
  BY <1>1, <1>2, <1>3
<1> QED
  BY <1>4, <1>7, <1>8, <1>9 DEF f

\* What a server folds by its step: this key, or nothing.
LEMMA FoldedGrows ==
  ASSUME TInv, NEW k \in Servers, AtKey(k), Advance(k), NEW y \in Years
  PROVE  /\ next[k] \in Keys /\ next[k] \notin Folded(k, y)
         /\ Folded(k, y) \in SUBSET Keys
         /\ Folded(k, y)' =
              IF ~Skipped(req, db[next[k]]) /\ (req.avg => y >= db[next[k]].created.year)
              THEN Folded(k, y) \cup {next[k]} ELSE Folded(k, y)
         /\ \A i \in Servers : i # k => Folded(i, y)' = Folded(i, y)
<1>1. Len(db) \in Nat /\ next[k] \in Nat /\ 1 <= next[k] /\ next[k] <= Len(db)
  BY DatabaseFacts DEF TInv, TypeOK, AtKey
<1>2. next' = [next EXCEPT ![k] = next[k] + 1] /\ req' = req /\ db' = db
  BY DEF Advance, sharedVars
<1>3. next'[k] - 1 = next[k] /\ \A i \in Servers : i # k => next'[i] = next[i]
  BY <1>1, <1>2 DEF TInv, TypeOK
<1>4. \A n : n \in 1..(next'[k] - 1) <=> n \in 1..(next[k] - 1) \/ n = next[k]
  BY <1>1, <1>3
<1>5. next[k] \in Keys /\ next[k] \notin 1..(next[k] - 1) /\ 1..(next[k] - 1) \subseteq Keys
  BY <1>1 DEF Keys
<1>6. \A n : n \in Folded(k, y)' <=> /\ n \in 1..(next'[k] - 1)
                                     /\ ~Skipped(req, db[n])
                                     /\ req.avg => y >= db[n].created.year
  BY <1>2 DEF Folded
<1>7. \A n : n \in Folded(k, y) <=> /\ n \in 1..(next[k] - 1)
                                    /\ ~Skipped(req, db[n])
                                    /\ req.avg => y >= db[n].created.year
  BY DEF Folded
<1>8. ASSUME NEW i \in Servers, i # k
      PROVE  Folded(i, y)' = Folded(i, y)
  BY <1>2, <1>3, <1>8 DEF Folded
<1> HIDE DEF Folded
<1>9. Folded(k, y)' =
        IF ~Skipped(req, db[next[k]]) /\ (req.avg => y >= db[next[k]].created.year)
        THEN Folded(k, y) \cup {next[k]} ELSE Folded(k, y)
  BY <1>4, <1>6, <1>7
<1> QED
  BY <1>5, <1>7, <1>8, <1>9

\* The shares do not change once the query is sent.
LEMMA SharesStay ==
  ASSUME UNCHANGED sharedVars, NEW k \in Servers, NEW j \in Positions, NEW y \in Years
  PROVE  /\ Shares(k, j, Ones)' = Shares(k, j, Ones)
         /\ Shares(k, j, Ages(y))' = Shares(k, j, Ages(y))
<1>1. req' = req /\ db' = db /\ point' = point /\ mask' = mask /\ holder' = holder
  BY DEF sharedVars
<1>2. Keys' = Keys /\ Ones' = Ones /\ Ages(y)' = Ages(y)
  BY <1>1 DEF Keys, Ones, Ages, AgesIn
<1>3. \A n : Share(k, n)' = Share(k, n)
  BY <1>1 DEF Share, Evaluate
<1> QED
  BY <1>2, <1>3 DEF Shares

LEMMA StepAccumulates ==
  ASSUME TInv, AccumulatorInv, SeenInv, NEW k \in Servers, ServerStep(k)
  PROVE  AccumulatorInv'
<1>1. CASE EvaluationPanics(k)
  <2>1. UNCHANGED <<sharedVars, next, out, sum, seen>>
    BY <1>1 DEF EvaluationPanics
  <2>2. \A i \in Servers, y \in Years : Folded(i, y)' = Folded(i, y)
    BY <2>1 DEF Folded, sharedVars
  <2>3. req' = req
    BY <2>1 DEF sharedVars
  <2> QED
    BY <2>1, <2>2, <2>3, SharesStay DEF AccumulatorInv
<1>2. CASE AtKey(k) /\ Advance(k) /\ (SkipKey(k) \/ SkipFuture(k) \/ CountKey(k))
  <2> SUFFICES ASSUME NEW i \in Servers, NEW y \in Years, NEW j \in Positions,
                      seen'[i] \subseteq {y}
               PROVE  /\ out'[i][j] = SumOf(Shares(i, j, Ones)', Folded(i, y)') % ModP
                      /\ req'.avg =>
                           sum'[i][j] = SumOf(Shares(i, j, Ages(y))', Folded(i, y)') % ModP
    BY DEF AccumulatorInv
  <2>1. req' = req /\ UNCHANGED sharedVars
    BY <1>2 DEF Advance, sharedVars
  <2>2. /\ Shares(i, j, Ones)' = Shares(i, j, Ones)
        /\ Shares(i, j, Ages(y))' = Shares(i, j, Ages(y))
    BY <2>1, SharesStay
  <2>3. seen[i] \subseteq seen'[i]
    <3>1. \/ seen' = seen
          \/ seen' = [seen EXCEPT ![k] = @ \cup {year}]
      BY <1>2 DEF SkipKey, SkipFuture, CountKey
    <3>2. seen \in [Servers -> SUBSET Years]
      BY DEF TInv, TypeOK
    <3>3. \A z : [seen EXCEPT ![k] = @ \cup {z}][i] = IF i = k THEN seen[i] \cup {z} ELSE seen[i]
      BY <3>2
    <3>4. CASE seen' = [seen EXCEPT ![k] = @ \cup {year}]
      <4>1. seen'[i] = IF i = k THEN seen[i] \cup {year} ELSE seen[i]
        BY <3>3, <3>4, Zenon
      <4> QED
        BY <4>1
    <3> QED
      BY <3>1, <3>4, Zenon
  <2>4. /\ out[i][j] = SumOf(Shares(i, j, Ones), Folded(i, y)) % ModP
        /\ req.avg => sum[i][j] = SumOf(Shares(i, j, Ages(y)), Folded(i, y)) % ModP
    BY <2>3 DEF AccumulatorInv
  <2>5. CASE i # k
    <3>1. Folded(i, y)' = Folded(i, y)
      BY <1>2, <2>5, FoldedGrows
    <3>2. out'[i] = out[i] /\ sum'[i] = sum[i]
      BY <2>5 DEF ServerStep, SkipKey, SkipFuture, CountKey, EvaluationPanics, TInv, TypeOK
    <3> QED
      BY <2>1, <2>2, <2>4, <3>1, <3>2
  <2>6. CASE i = k /\ SkipKey(k)
    <3>1. Folded(k, y)' = Folded(k, y)
      BY <1>2, <2>6, FoldedGrows DEF SkipKey, Key
    <3>2. out' = out /\ sum' = sum
      BY <2>6 DEF SkipKey
    <3> QED
      BY <2>1, <2>2, <2>4, <2>6, <3>1, <3>2
  <2>7. CASE i = k /\ SkipFuture(k)
    <3>1. year = y
      <4>1. year \in seen'[k]
        BY <2>7 DEF SkipFuture, TInv, TypeOK
      <4> QED
        BY <2>7, <4>1
    <3>2. req.avg /\ ~(y >= db[next[k]].created.year)
      <4>1. next[k] \in Keys
        BY <1>2, FoldedGrows
      <4>2. db[next[k]].created.year \in Int /\ y \in Int
        BY <4>1, DatabaseFacts, ModPFacts DEF TInv, Keys
      <4>3. req.avg /\ y - db[next[k]].created.year < 0
        BY <2>7, <3>1 DEF SkipFuture, Age, Key
      <4> QED
        BY <4>2, <4>3
    <3>3. Folded(k, y)' = Folded(k, y)
      BY <1>2, <2>7, <3>2, FoldedGrows
    <3>4. out' = out /\ sum' = sum
      BY <2>7 DEF SkipFuture
    <3> QED
      BY <2>1, <2>2, <2>4, <2>7, <3>3, <3>4
  <2>8. CASE i = k /\ CountKey(k)
    <3> DEFINE n == next[k]
    <3>1. /\ ~Skipped(req, db[n])
          /\ out' = [out EXCEPT ![k] = Add(out[k], Share(k, n), 1)]
      BY <2>8 DEF CountKey, Key
    <3>2. n \in Keys /\ n \notin Folded(k, y) /\ Folded(k, y) \in SUBSET Keys
      BY <1>2, FoldedGrows
    <3>3. CASE ~req.avg
      <4>1. Folded(k, y)' = Folded(k, y) \cup {n}
        BY <1>2, <3>1, <3>3, FoldedGrows
      <4>2. out'[k] = Add(out[k], Share(k, n), 1)
        BY <3>1 DEF TInv, TypeOK
      <4>3. Ones \in [Keys -> Int] /\ Ones[n] = 1
        BY <3>2, WeightTypes DEF Ones
      <4>4. out'[k][j] = SumOf(Shares(k, j, Ones), Folded(k, y) \cup {n}) % ModP
        BY <2>4, <2>8, <3>2, <4>2, <4>3, AddFolds
      <4> QED
        BY <2>1, <2>2, <2>8, <3>3, <4>1, <4>4
    <3>4. CASE req.avg
      <4>1. /\ Age(db[n]) >= 0
            /\ sum' = [sum EXCEPT ![k] = Add(sum[k], Share(k, n), Age(db[n]))]
            /\ seen' = [seen EXCEPT ![k] = seen[k] \cup {year}]
        BY <2>8, <3>4 DEF CountKey, Key
      <4>2. year = y
        <5>1. year \in seen'[k]
          BY <4>1 DEF TInv, TypeOK
        <5> QED
          BY <2>8, <5>1
      <4>3. db[n].created.year \in Int /\ y \in Int
        BY <3>2, DatabaseFacts, ModPFacts DEF TInv, Keys
      <4>4. y >= db[n].created.year
        BY <4>1, <4>2, <4>3 DEF Age
      <4>5. Folded(k, y)' = Folded(k, y) \cup {n}
        BY <1>2, <3>1, <3>4, <4>4, FoldedGrows
      <4>6. /\ out'[k] = Add(out[k], Share(k, n), 1)
            /\ sum'[k] = Add(sum[k], Share(k, n), Age(db[n]))
        BY <3>1, <4>1 DEF TInv, TypeOK
      <4>7. /\ Ones \in [Keys -> Int] /\ Ones[n] = 1
            /\ Ages(y) \in [Keys -> Int] /\ Ages(y)[n] = Age(db[n])
        BY <3>2, <4>2, WeightTypes DEF Ones, Ages, AgesIn, Age, Keys
      <4>8. out'[k][j] = SumOf(Shares(k, j, Ones), Folded(k, y) \cup {n}) % ModP
        BY <2>4, <2>8, <3>2, <4>6, <4>7, AddFolds
      <4>9. sum'[k][j] = SumOf(Shares(k, j, Ages(y)), Folded(k, y) \cup {n}) % ModP
        BY <2>4, <2>8, <3>2, <3>4, <4>6, <4>7, AddFolds
      <4> QED
        BY <2>1, <2>2, <2>8, <3>4, <4>5, <4>8, <4>9
    <3> QED
      BY <3>3, <3>4
  <2> QED
    BY <1>2, <2>5, <2>6, <2>7, <2>8
<1> QED
  BY <1>1, <1>2 DEF ServerStep, SkipKey, SkipFuture, CountKey
-----------------------------------------------------------------------------
(* What the client makes of two answers.                                   *)

\* With servers that computed within one year, the tags match, the count is
\* that of the keys that the query means and the sum that of their ages.
LEMMA Reconstructed ==
  ASSUME TInv, AccumulatorInv, AnswersInv, SentInv, Len(answers) = 2, client # "idle",
         NEW y \in Years, OneYear(y)
  PROVE  /\ TagsMatch(Total("count"))
         /\ Total("count")[0] = Cardinality(Meaning(y))
         /\ req.avg => /\ TagsMatch(Total("sum"))
                       /\ Total("sum")[0] = SumOf(Ages(y), Averaged(y))
<1>1. Meaning(y) \in SUBSET Keys /\ IsFiniteSet(Meaning(y))
  <2>1. Meaning(y) \in SUBSET Keys
    BY DEF Meaning, Averaged, Counted, MatchedKeys, Keys
  <2> QED
    BY <2>1, WeightTypes, FS_Subset
<1>2. point[0] = 1
  BY DEF SentInv
<1>3. /\ TagsMatch(Total("count"))
      /\ Total("count")[0] = Cardinality(Meaning(y))
  <2> DEFINE c == Cardinality(Meaning(y))
  <2>1. SumOf(Ones, Meaning(y)) = c
    <3>1. \A x \in Keys : Ones[x] = 1
      BY DEF Ones
    <3> QED
      BY <1>1, <3>1, WeightTypes, SumOfOnes
  <2>2. c \in Nat /\ c < ModP
    <3>1. Cardinality(Keys) = Len(db)
      <4>1. Len(db) \in Nat
        BY WeightTypes
      <4>2. \A a, b \in Int : Cardinality(a..b) = IF a > b THEN 0 ELSE b - a + 1
        BY FS_Interval
      <4>3. Cardinality(1..Len(db)) = IF 1 > Len(db) THEN 0 ELSE Len(db) - 1 + 1
        BY <4>1, <4>2
      <4> QED
        BY <4>1, <4>3 DEF Keys
    <3>2. c <= Cardinality(Keys) /\ c \in Nat
      BY <1>1, WeightTypes, FS_Subset, FS_CardinalityType
    <3>3. Len(db) < ModP
      BY FieldFacts DEF TInv
    <3> QED
      BY <3>1, <3>2, <3>3, WeightTypes, ModPFacts
  <2>3. \A j \in Positions : Total("count")[j] = (point[j] * c) % ModP
    BY <2>1, Totals
  <2> HIDE DEF c
  <2>4. TagsMatch(Total("count")) /\ Total("count")[0] = c
    BY <1>2, <2>2, <2>3, TagsOfMultiple
  <2> QED
    BY <2>4 DEF c
<1>4. ASSUME req.avg
      PROVE  /\ TagsMatch(Total("sum"))
             /\ Total("sum")[0] = SumOf(Ages(y), Averaged(y))
  <2> DEFINE c == SumOf(Ages(y), Averaged(y))
             S == {n \in Keys : y >= db[n].created.year}
  <2>1. Meaning(y) = Averaged(y) /\ S \in SUBSET Keys /\ Averaged(y) \in SUBSET S
    BY <1>4 DEF Meaning, Averaged, Counted, Keys
  <2>2. Ages(y) \in [Keys -> Int] /\ \A n \in S : Ages(y)[n] >= 0
    <3>1. Ages(y) \in [Keys -> Int]
      BY WeightTypes
    <3>2. ASSUME NEW n \in S
          PROVE  Ages(y)[n] >= 0
      <4>1. db[n].created.year \in Int /\ y \in Int /\ y >= db[n].created.year
        BY DatabaseFacts, ModPFacts DEF TInv, Keys
      <4>2. Ages(y)[n] = y - db[n].created.year
        BY DEF Ages, AgesIn, Keys
      <4> QED
        BY <4>1, <4>2
    <3> QED
      BY <3>1, <3>2
  <2>3. c \in Nat /\ c < ModP
    <3>1. SumOf(Ages(y), S) < ModP
      BY FieldFacts DEF TInv, Ages, Keys
    <3> HIDE DEF S
    <3>2. c <= SumOf(Ages(y), S)
      BY <2>1, <2>2, WeightTypes, SumOfGrows
    <3>3. SumOf(Ages(y), S) \in Nat
      BY <2>1, <2>2, WeightTypes, SumOfNat
    <3>4. c \in Nat
      <4>1. Averaged(y) \in SUBSET Keys /\ \A n \in Averaged(y) : Ages(y)[n] >= 0
        BY <2>1, <2>2
      <4> QED
        BY <2>2, <4>1, WeightTypes, SumOfNat
    <3> HIDE DEF c
    <3> QED
      BY <3>1, <3>2, <3>3, <3>4, ModPFacts
  <2>4. \A j \in Positions : Total("sum")[j] = (point[j] * c) % ModP
    BY <1>4, <2>1, Totals
  <2> HIDE DEF c
  <2>5. TagsMatch(Total("sum")) /\ Total("sum")[0] = c
    BY <1>2, <2>3, <2>4, TagsOfMultiple
  <2> QED
    BY <2>5 DEF c
<1> QED
  BY <1>3, <1>4
-----------------------------------------------------------------------------
(* The invariant is inductive.                                             *)
LEMMA InitInv == Init => IInv
<1> SUFFICES ASSUME Init
             PROVE  IInv
  OBVIOUS
<1>1. TInv
  BY InitTyped
<1>2. AccumulatorInv
  <2> SUFFICES ASSUME NEW k \in Servers, NEW y \in Years, NEW j \in Positions
               PROVE  /\ out[k][j] = SumOf(Shares(k, j, Ones), Folded(k, y)) % ModP
                      /\ sum[k][j] = SumOf(Shares(k, j, Ages(y)), Folded(k, y)) % ModP
    BY DEF AccumulatorInv
  <2>1. next[k] = 1 /\ out[k][j] = 0 /\ sum[k][j] = 0
    BY DEF Init, Zero
  <2>2. Folded(k, y) = {}
    BY <2>1 DEF Folded
  <2>3. 0 % ModP = 0
    BY ModPFacts
  <2> QED
    BY <2>1, <2>2, <2>3, SumOfEmpty
<1>3. StartInv /\ SeenInv /\ SentInv
  BY DEF Init, StartInv, SeenInv, SentInv
<1>4. AnswersInv
  BY DEF Init, AnswersInv
<1>5. AcceptedInv /\ HonestIsAccepted /\ PanicMeansEmpty
  BY DEF Init, AcceptedInv, HonestIsAccepted, PanicMeansEmpty
<1> QED
  BY <1>1, <1>2, <1>3, <1>4, <1>5 DEF IInv

\* Steps that leave the servers' work and the query as they are.
LEMMA ServersStay ==
  ASSUME AccumulatorInv, SeenInv, SentInv, UNCHANGED <<sharedVars, serverVars>>,
         client # "idle" \/ client' = "idle"
  PROVE  AccumulatorInv' /\ SeenInv' /\ SentInv'
<1>1. /\ req' = req /\ db' = db /\ point' = point /\ holder' = holder
      /\ next' = next /\ out' = out /\ sum' = sum /\ seen' = seen
  BY DEF sharedVars, serverVars
<1>2. \A k \in Servers, y \in Years : Folded(k, y)' = Folded(k, y)
  BY <1>1 DEF Folded
<1>3. AccumulatorInv'
  BY <1>1, <1>2, SharesStay DEF AccumulatorInv
<1>4. SeenInv' /\ SentInv'
  BY <1>1 DEF SeenInv, SentInv
<1> QED
  BY <1>3, <1>4

LEMMA AskKept ==
  ASSUME IInv, ~MapOrder, Ask
  PROVE  AccumulatorInv' /\ StartInv' /\ AnswersInv' /\ SeenInv' /\ SentInv'
<1>1. /\ client = "idle" /\ client' = "waiting"
      /\ UNCHANGED <<req, db, answers, result, serverVars, year>>
  BY DEF Ask
<1>2. /\ next' = next /\ out' = out /\ sum' = sum /\ seen' = seen
      /\ req' = req /\ db' = db /\ answers' = answers
  BY <1>1 DEF serverVars
<1>3. AccumulatorInv'
  <2> SUFFICES ASSUME NEW k \in Servers, NEW y \in Years, NEW j \in Positions
               PROVE  /\ out'[k][j] = SumOf(Shares(k, j, Ones)', Folded(k, y)') % ModP
                      /\ sum'[k][j] = SumOf(Shares(k, j, Ages(y))', Folded(k, y)') % ModP
    BY DEF AccumulatorInv
  <2>1. next'[k] = 1 /\ out'[k][j] = 0 /\ sum'[k][j] = 0
    BY <1>1, <1>2 DEF IInv, StartInv, Zero
  <2>2. Folded(k, y)' = {}
    BY <2>1 DEF Folded
  <2>3. 0 % ModP = 0
    BY ModPFacts
  <2> QED
    BY <2>1, <2>2, <2>3, SumOfEmpty
<1>4. StartInv'
  BY <1>1 DEF StartInv
<1>5. AnswersInv' /\ SeenInv'
  BY <1>2 DEF IInv, AnswersInv, SeenInv
<1>6. SentInv'
  <2>1. holder' = [k \in Servers |-> k]
    BY DEF Ask
  <2>2. point'[0] = 1
    BY ModPFacts DEF Ask
  <2> QED
    BY <2>1, <2>2 DEF SentInv
<1> QED
  BY <1>3, <1>4, <1>5, <1>6

LEMMA ReceiveKept ==
  ASSUME IInv, NEW k \in Servers, Receive(k)
  PROVE  AnswersInv'
<1>1. /\ next[k] = Len(db) + 1 /\ UNCHANGED <<sharedVars, serverVars>>
      /\ answers' = Append(answers, [server |-> k, count |-> out[k], sum |-> sum[k]])
      /\ \A n \in 1..Len(answers) : answers[n].server # k
  BY DEF Receive, Received
<1>2. db' = db /\ next' = next /\ out' = out /\ sum' = sum
  BY <1>1 DEF sharedVars, serverVars
<1> DEFINE N == Len(answers)
           a == [server |-> k, count |-> out[k], sum |-> sum[k]]
<1>3. /\ N \in Nat /\ Len(answers') = N + 1 /\ answers'[N + 1] = a
      /\ \A n \in 1..N : answers'[n] = answers[n]
  <2> DEFINE R == [server : Servers, count : Vector, sum : Vector]
  <2>1. answers \in Seq(R)
    BY DEF IInv, TInv, TypeOK
  <2> HIDE DEF R, a
  <2> QED
    BY <1>1, <2>1 DEF a
<1>4. /\ \A n \in 1..N : /\ next[answers[n].server] = Len(db) + 1
                         /\ answers[n].count = out[answers[n].server]
                         /\ answers[n].sum = sum[answers[n].server]
      /\ \A m, n \in 1..N : answers[m].server = answers[n].server => m = n
  BY DEF IInv, AnswersInv
<1>5. a.server = k /\ a.count = out[k] /\ a.sum = sum[k]
  OBVIOUS
<1> HIDE DEF N, a
<1>6. ASSUME NEW n \in 1..(N + 1)
      PROVE  n \in 1..N \/ n = N + 1
  BY <1>3
<1>7. ASSUME NEW n \in 1..(N + 1)
      PROVE  /\ next'[answers'[n].server] = Len(db') + 1
             /\ answers'[n].count = out'[answers'[n].server]
             /\ answers'[n].sum = sum'[answers'[n].server]
  BY <1>1, <1>2, <1>3, <1>4, <1>5, <1>6
<1>8. ASSUME NEW m \in 1..(N + 1), NEW n \in 1..(N + 1),
             answers'[m].server = answers'[n].server
      PROVE  m = n
  BY <1>1, <1>3, <1>4, <1>5, <1>6, <1>8 DEF N
<1> QED
  BY <1>3, <1>7, <1>8 DEF AnswersInv

LEMMA ServerKept ==
  ASSUME IInv, NEW k \in Servers, ServerStep(k)
  PROVE  /\ AccumulatorInv' /\ StartInv' /\ AnswersInv' /\ SeenInv' /\ SentInv'
         /\ client' = "waiting"
<1>1. /\ client = "waiting" /\ next[k] <= Len(db)
      /\ UNCHANGED <<sharedVars, clientVars, year>>
  BY DEF ServerStep, SkipKey, SkipFuture, CountKey, EvaluationPanics, AtKey, Advance
<1>2. client' = "waiting" /\ answers' = answers /\ req' = req /\ db' = db
      /\ point' = point /\ holder' = holder
  BY <1>1 DEF clientVars, sharedVars
<1>3. AccumulatorInv'
  BY StepAccumulates DEF IInv
<1>4. StartInv' /\ SentInv'
  BY <1>1, <1>2 DEF StartInv, IInv, SentInv
<1>5. \A i \in Servers : i # k => next'[i] = next[i] /\ out'[i] = out[i] /\ sum'[i] = sum[i]
  BY DEF IInv, TInv, TypeOK, ServerStep, SkipKey, SkipFuture, CountKey, EvaluationPanics,
         Advance
<1>6. AnswersInv'
  <2>1. ASSUME NEW n \in 1..Len(answers)
        PROVE  answers[n].server \in Servers /\ answers[n].server # k
    <3> DEFINE R == [server : Servers, count : Vector, sum : Vector]
    <3>1. answers \in Seq(R)
      BY DEF IInv, TInv, TypeOK
    <3>2. answers[n] \in R
      <4> HIDE DEF R
      <4> QED
        BY <3>1
    <3>3. next[answers[n].server] = Len(db) + 1 /\ Len(db) \in Nat
      BY DatabaseFacts DEF IInv, AnswersInv, TInv
    <3> QED
      BY <1>1, <3>2, <3>3
  <2> QED
    BY <1>2, <1>5, <2>1 DEF IInv, AnswersInv
<1>7. SeenInv'
  <2>1. ~req.avg => seen' = seen
    BY DEF ServerStep, SkipKey, SkipFuture, CountKey, EvaluationPanics
  <2> QED
    BY <1>2, <2>1 DEF IInv, SeenInv
<1> QED
  BY <1>2, <1>3, <1>4, <1>6, <1>7

\* The client accepts what is true, and rejects or panics with a reason.
LEMMA ReconstructKept ==
  ASSUME IInv, Reconstruct
  PROVE  AcceptedInv' /\ HonestIsAccepted' /\ PanicMeansEmpty'
<1>1. /\ client = "waiting" /\ Len(answers) = 2
      /\ UNCHANGED <<sharedVars, serverVars>>
  BY DEF Reconstruct
<1>2. req' = req /\ db' = db /\ seen' = seen
  BY <1>1 DEF sharedVars, serverVars
<1>3. \A y \in Years : /\ OneYear(y)' <=> OneYear(y)
                       /\ Averaged(y)' = Averaged(y) /\ Ages(y)' = Ages(y)
  BY <1>2 DEF OneYear, Averaged, Counted, Ages, AgesIn
<1>4. MatchedKeys' = MatchedKeys
  BY <1>2 DEF MatchedKeys, Keys
<1>5. ASSUME NEW y \in Years, OneYear(y)
      PROVE  /\ TagsMatch(Total("count"))
             /\ Total("count")[0] = Cardinality(Meaning(y))
             /\ req.avg => /\ TagsMatch(Total("sum"))
                           /\ Total("sum")[0] = SumOf(Ages(y), Averaged(y))
  BY <1>1, <1>5, Reconstructed DEF IInv
<1>6. ~req.avg => ThisYear \in Years /\ OneYear(ThisYear)
  BY DEF Years, IInv, SeenInv, OneYear
<1>7. /\ \A y \in Years : req.avg => Meaning(y) = Averaged(y)
      /\ ~req.avg => Meaning(ThisYear) = MatchedKeys
  BY DEF Meaning
<1>8. CASE ~req.avg
  <2>1. TagsMatch(Total("count")) /\ Total("count")[0] = Cardinality(MatchedKeys)
    BY <1>5, <1>6, <1>7, <1>8
  <2>2. client' = "accepted" /\ result' = Total("count")[0]
    BY <1>8, <2>1 DEF Reconstruct, End
  <2> QED
    BY <1>2, <1>4, <1>8, <2>1, <2>2
       DEF AcceptedInv, HonestIsAccepted, PanicMeansEmpty
<1>9. CASE req.avg
  <2>1. AcceptedInv'
    <3> SUFFICES ASSUME client' = "accepted", NEW y \in Years, OneYear(y)
                 PROVE  result' = SumOf(Ages(y), Averaged(y)) \div Cardinality(Averaged(y))
      BY <1>2, <1>3, <1>9 DEF AcceptedInv
    <3>1. result' = Total("sum")[0] \div Total("count")[0]
      BY <1>9 DEF Reconstruct, End
    <3> QED
      BY <1>5, <1>7, <1>9, <3>1
  <2>2. HonestIsAccepted'
    <3> SUFFICES ASSUME client' = "rejected", NEW y \in Years, OneYear(y)
                 PROVE  FALSE
      BY <1>3 DEF HonestIsAccepted
    <3>1. ~TagsMatch(Total("count")) \/ ~TagsMatch(Total("sum"))
      BY DEF Reconstruct, End
    <3> QED
      BY <1>5, <1>9, <3>1
  <2>3. PanicMeansEmpty'
    <3> SUFFICES ASSUME client' = "panicked", NEW y \in Years, OneYear(y)
                 PROVE  Averaged(y) = {}
      BY <1>2, <1>3, <1>9 DEF PanicMeansEmpty
    <3>1. Total("count")[0] = 0
      BY DEF Reconstruct, End
    <3>2. Cardinality(Averaged(y)) = 0
      BY <1>5, <1>7, <1>9, <3>1
    <3>3. IsFiniteSet(Averaged(y))
      <4>1. Averaged(y) \in SUBSET Keys
        BY DEF Averaged, Counted, Keys
      <4> QED
        BY <4>1, WeightTypes, FS_Subset DEF IInv
    <3> QED
      BY <3>2, <3>3, FS_EmptySet
  <2> QED
    BY <2>1, <2>2, <2>3
<1> QED
  BY <1>8, <1>9

LEMMA NextInv ==
  ASSUME ~MapOrder
  PROVE  IInv /\ [Next]_vars => IInv'
<1> SUFFICES ASSUME IInv, [Next]_vars
             PROVE  IInv'
  OBVIOUS
<1>0. TInv'
  BY NextTyped DEF IInv
<1>1. ASSUME client' \in {"idle", "waiting", "fatal"}
      PROVE  AcceptedInv' /\ HonestIsAccepted' /\ PanicMeansEmpty'
  BY <1>1 DEF AcceptedInv, HonestIsAccepted, PanicMeansEmpty
<1>2. CASE Ask
  <2>1. client' = "waiting"
    BY <1>2 DEF Ask
  <2> QED
    BY <1>0, <1>1, <1>2, <2>1, AskKept DEF IInv
<1>3. CASE Reconstruct
  <2>1. /\ client # "idle" /\ client' # "idle" /\ answers' = answers
        /\ UNCHANGED <<sharedVars, serverVars>>
    BY <1>3 DEF Reconstruct, End
  <2>2. AccumulatorInv' /\ SeenInv' /\ SentInv'
    BY <2>1, ServersStay DEF IInv
  <2>3. AnswersInv' /\ StartInv'
    BY <2>1 DEF AnswersInv, StartInv, IInv, sharedVars, serverVars
  <2> QED
    BY <1>0, <1>3, <2>2, <2>3, ReconstructKept DEF IInv
<1>4. CASE NewYear
  <2>1. client = "waiting" /\ UNCHANGED <<sharedVars, clientVars, serverVars>>
    BY <1>4 DEF NewYear
  <2>2. client' = "waiting" /\ answers' = answers
    BY <2>1 DEF clientVars
  <2>3. AccumulatorInv' /\ SeenInv' /\ SentInv'
    BY <2>1, ServersStay DEF IInv
  <2>4. AnswersInv' /\ StartInv'
    BY <2>1, <2>2 DEF AnswersInv, StartInv, IInv, sharedVars, serverVars
  <2> QED
    BY <1>0, <1>1, <2>2, <2>3, <2>4 DEF IInv
<1>5. ASSUME NEW k \in Servers, Receive(k)
      PROVE  IInv'
  <2>1. client = "waiting" /\ client' = client /\ UNCHANGED <<sharedVars, serverVars>>
    BY <1>5 DEF Receive
  <2>2. AccumulatorInv' /\ SeenInv' /\ SentInv'
    BY <2>1, ServersStay DEF IInv
  <2>3. StartInv'
    BY <2>1 DEF StartInv
  <2> QED
    BY <1>0, <1>1, <1>5, <2>1, <2>2, <2>3, ReceiveKept DEF IInv
<1>6. ASSUME NEW k \in Servers, RpcFails(k)
      PROVE  IInv'
  <2>1. /\ client # "idle" /\ client' = "fatal" /\ answers' = answers
        /\ UNCHANGED <<sharedVars, serverVars>>
    BY <1>6 DEF RpcFails
  <2>2. AccumulatorInv' /\ SeenInv' /\ SentInv'
    BY <2>1, ServersStay DEF IInv
  <2>3. AnswersInv' /\ StartInv'
    BY <2>1 DEF AnswersInv, StartInv, IInv, sharedVars, serverVars
  <2> QED
    BY <1>0, <1>1, <2>1, <2>2, <2>3 DEF IInv
<1>7. ASSUME NEW k \in Servers, ServerStep(k)
      PROVE  IInv'
  BY <1>0, <1>1, <1>7, ServerKept DEF IInv
<1>8. CASE UNCHANGED vars
  <2>1. /\ client' = client /\ answers' = answers /\ result' = result
        /\ UNCHANGED <<sharedVars, serverVars>>
    BY <1>8 DEF vars, clientVars
  <2>2. req' = req /\ db' = db /\ next' = next /\ out' = out /\ sum' = sum /\ seen' = seen
    BY <2>1 DEF sharedVars, serverVars
  <2>3. AccumulatorInv' /\ SeenInv' /\ SentInv'
    BY <2>1, ServersStay DEF IInv
  <2>4. AnswersInv' /\ StartInv'
    BY <2>1, <2>2 DEF AnswersInv, StartInv, IInv
  <2>5. Counted' = Counted /\ MatchedKeys' = MatchedKeys
    BY <2>2 DEF Counted, MatchedKeys, Keys
  <2>6. \A y \in Years : /\ OneYear(y)' <=> OneYear(y)
                         /\ Averaged(y)' = Averaged(y) /\ Ages(y)' = Ages(y)
    BY <2>2, <2>5 DEF OneYear, Averaged, Ages, AgesIn
  <2>7. AcceptedInv' /\ HonestIsAccepted' /\ PanicMeansEmpty'
    BY <2>1, <2>2, <2>5, <2>6 DEF AcceptedInv, HonestIsAccepted, PanicMeansEmpty, IInv
  <2> QED
    BY <1>0, <2>3, <2>4, <2>7 DEF IInv
<1> QED
  BY <1>2, <1>3, <1>4, <1>5, <1>6, <1>7, <1>8 DEF Next, Finished

LEMMA AcceptedTrue == IInv => AcceptedIsTrue
<1> SUFFICES ASSUME IInv, client = "accepted"
             PROVE  IF ~req.avg THEN result = Cardinality(Counted)
                    ELSE \A y \in Years : OneYear(y) =>
                           result = MapThenSumSet(LAMBDA n : y - db[n].created.year,
                                                  Averaged(y)) \div Cardinality(Averaged(y))
  BY DEF AcceptedIsTrue
<1>1. ASSUME NEW y \in Years
      PROVE  MapThenSumSet(LAMBDA n : y - db[n].created.year, Averaged(y))
               = SumOf(Ages(y), Averaged(y))
  <2>1. Averaged(y) \in SUBSET (1..Len(db)) /\ db \in Databases
    BY DEF Averaged, Counted, IInv, TInv
  <2> QED
    BY <2>1, AgesSum DEF Ages
<1>2. MatchedKeys = Counted
  BY MatchedMeant DEF IInv
<1> QED
  BY <1>1, <1>2 DEF IInv, AcceptedInv

\* What a client accepts is the number of keys that the query means, or their
\* average age, whatever the masks, the alphas and the order of the answers:
\* for every request, with dates in any zone and any name of an algorithm, and
\* for the manager's clients, whose connections are in the order of the servers.
THEOREM AcceptedCorrect ==
  ASSUME ~MapOrder
  PROVE  Spec => []AcceptedIsTrue
<1>1. IInv /\ [Next]_vars => IInv'
  BY NextInv
<1> QED
  BY <1>1, InitInv, AcceptedTrue, PTL DEF Spec

\* With honest servers such a client rejects nothing but an average that was
\* computed across a change of year.
THEOREM HonestAccepted ==
  ASSUME ~MapOrder
  PROVE  Spec => []HonestIsAccepted
<1>1. IInv /\ [Next]_vars => IInv'
  BY NextInv
<1>2. IInv => HonestIsAccepted
  BY DEF IInv
<1> QED
  BY <1>1, <1>2, InitInv, PTL DEF Spec

\* Such a client panics on nothing but an average of no keys.
THEOREM PanicEmpty ==
  ASSUME ~MapOrder
  PROVE  Spec => []PanicMeansEmpty
<1>1. IInv /\ [Next]_vars => IInv'
  BY NextInv
<1>2. IInv => PanicMeansEmpty
  BY DEF IInv
<1> QED
  BY <1>1, <1>2, InitInv, PTL DEF Spec
=============================================================================
