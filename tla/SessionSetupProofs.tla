------------------------- MODULE SessionSetupProofs -------------------------
(***************************************************************************)
(* Proofs about the setup of sessions, for any clients, names and table.   *)
(*                                                                         *)
(* The store below them keeps StoreOK of ConfigStoreProofs with the calls  *)
(* that sessions make.  SessionOK adds what a session knows: that the call *)
(* it waits for asks for its own name, that what is answered fits the name, *)
(* and that it is what the file would be answered with until the file is   *)
(* written or cannot be opened (touched).                                  *)
(***************************************************************************)
EXTENDS SessionSetupProperties, ConfigStoreProofs, FiniteSetTheorems

-----------------------------------------------------------------------------
(* Sessions.                                                               *)

(* The calls of sessions, and the names they are made with.                *)
LoginCalls == {[kind |-> "login", name |-> name] : name \in Logins \cup {AdminUser, <<>>}}

Asked == Statements \cup LoginCalls

NamesOK == login \in [Clients -> Logins \cup {AdminUser, <<>>}]

(* Sessions start with a store ...                                         *)
LEMMA SessionsStart == SessionInit => StoreOK(Asked) /\ SightOK /\ WholeOK /\ NamesOK
<1> SUFFICES ASSUME SessionInit PROVE StoreOK(Asked) /\ SightOK /\ WholeOK /\ NamesOK
  OBVIOUS
<1>1. FirstRows \in Seq(Owned)
  <2> DEFINE q == FirstRows
  <2>1. q \in Seq(Rows) /\ \A i \in DOMAIN q : q[i] \in Owned
    BY FirstRowsAssumption DEF Owned
  <2> HIDE DEF q
  <2>2. q = [i \in 1 .. Len(q) |-> q[i]] /\ Len(q) \in Nat /\ DOMAIN q = 1 .. Len(q)
    BY <2>1
  <2>3. q \in Seq(Owned)
    BY <2>1, <2>2
  <2>4. QED
    BY <2>3 DEF q
<1>2. FileOK
  <2>1. CASE file = Absent
    BY <2>1, AbsentOK
  <2>2. CASE file = [state |-> "whole", rows |-> FirstRows]
    BY <1>1, <2>2 DEF FileOK, Files
  <2>3. QED
    BY <2>1, <2>2 DEF SessionInit
<1>3. StoreOK(Asked)
  BY <1>2, StoreStarts DEF SessionInit
<1>4. SightOK /\ WholeOK /\ NamesOK
  BY DEF SessionInit, Idle, SightOK, WholeOK, NamesOK
<1>5. QED
  BY <1>3, <1>4

(* Sessions ask what the store knows.                                      *)
LEMMA AskedAskable == Askable(Asked)
BY DEF Askable, Asked, LoginCalls

(* ... and their steps are its steps, or leave it alone.                   *)
LEMMA SessionsMove == NamesOK /\ [SessionNext]_allVars => Moves(Asked) /\ NamesOK'
<1> SUFFICES ASSUME NamesOK, [SessionNext]_allVars PROVE Moves(Asked) /\ NamesOK'
  OBVIOUS
<1> USE DEF NamesOK
<1>1. CASE Reboot
  BY <1>1 DEF Reboot, Moves
<1>2. ASSUME NEW c \in Clients, Handshake(c) PROVE Moves(Asked) /\ NamesOK'
  <2>1. PICK name \in Logins : /\ login' = [login EXCEPT ![c] = name]
                               /\ Call(c, [kind |-> "login", name |-> name])
    BY <1>2 DEF Handshake
  <2>2. [kind |-> "login", name |-> name] \in Asked
    BY DEF Asked, LoginCalls
  <2>3. QED
    BY <2>1, <2>2 DEF Moves
<1>3. ASSUME NEW c \in Clients, Lookup(c) PROVE Moves(Asked) /\ NamesOK'
  <2>1. Call(c, LoginOf(c)) /\ login' = login
    BY <1>3 DEF Lookup
  <2>2. LoginOf(c) \in Asked
    BY DEF Asked, LoginCalls, LoginOf
  <2>3. QED
    BY <2>1, <2>2 DEF Moves
<1>4. ASSUME NEW c \in Clients, Administers(c) PROVE Moves(Asked) /\ NamesOK'
  BY <1>4 DEF Administers, Moves, Asked
<1>5. ASSUME NEW c \in Clients, Works(c) PROVE Moves(Asked) /\ NamesOK'
  BY <1>5 DEF Works, Moves
<1>6. ASSUME NEW c \in Clients, Leaves(c) PROVE Moves(Asked) /\ NamesOK'
  BY <1>6 DEF Leaves, Moves
<1>7. ASSUME NEW c \in Clients, Authenticated(c) \/ Fetched(c) \/ Connects(c)
      PROVE  Moves(Asked) /\ NamesOK'
  <2>1. UNCHANGED vars /\ login' = login
    BY <1>7 DEF Authenticated, Fetched, Connects
  <2>2. QED
    BY <2>1 DEF Moves
<1>8. CASE UNCHANGED allVars
  <2>1. UNCHANGED vars /\ login' = login
    BY <1>8 DEF allVars, sessionVars
  <2>2. QED
    BY <2>1 DEF Moves
<1>9. QED
  BY <1>1, <1>2, <1>3, <1>4, <1>5, <1>6, <1>7, <1>8 DEF SessionNext, sessionWorker

(* The invariant, below the sessions.                                      *)
LEMMA SessionInvariant == SessionSpec => [](StoreOK(Asked) /\ WholeOK /\ NamesOK)
<1> DEFINE Inv == StoreOK(Asked) /\ WholeOK /\ NamesOK
<1>1. SessionInit => Inv
  BY SessionsStart
<1>2. Inv /\ [SessionNext]_allVars => Inv'
  BY SessionsMove, StoreStep, WholeStep, AskedAskable
<1>3. QED
  <2> HIDE DEF Inv
  <2>1. SessionSpec => []Inv
    BY <1>1, <1>2, PTL DEF SessionSpec
  <2>2. QED
    BY <2>1 DEF Inv

(* The same of the table below sessions, which log in and administer it at *)
(* the same time (proxysrv.go:88-118).                                     *)
THEOREM SessionsKeepPasswords == SessionSpec => []PasswordsStayWithTheirUsers
<1>1. StoreOK(Asked) => PasswordsStayWithTheirUsers
  BY StoreKeepsPasswords
<1>2. QED
  BY <1>1, SessionInvariant, PTL

(* What is acknowledged to an administrator's session is on file as a      *)
(* whole, whatever other sessions do.                                      *)
THEOREM SessionChangesAreWhole == SessionSpec => AcknowledgedChangesAreWhole
<1> DEFINE Inv == StoreOK(Asked) /\ WholeOK /\ NamesOK
<1>1. Inv /\ [SessionNext]_allVars => [\A c \in Clients : Acknowledged(c)]_vars
  <2>1. Inv /\ [SessionNext]_allVars => \A c \in Clients : Acknowledged(c)
    BY SessionsMove, AcknowledgedStep
  <2>2. QED
    BY <2>1 DEF Acknowledged
<1>2. SessionSpec => []Inv
  BY SessionInvariant
<1> HIDE DEF Inv
<1>3. QED
  BY <1>1, <1>2, PTL DEF SessionSpec, AcknowledgedChangesAreWhole, Acknowledged

-----------------------------------------------------------------------------
(* Taking a login name apart.                                              *)

Free(q, sep) == \A i \in DOMAIN q : q[i] # sep

(* strings.Split finds no separator ...                                    *)
LEMMA NoSplit ==
    ASSUME NEW q, NEW sep, Free(q, sep)
    PROVE  At(q, sep) = {} /\ ~ InTwo(q, sep)
<1>1. At(q, sep) = {}
  BY DEF At, Free
<1>2. QED
  BY <1>1, FS_EmptySet DEF InTwo

(* ... or gives what is before and behind the only one.                    *)
LEMMA Split ==
    ASSUME NEW S, NEW a \in Seq(S), NEW b \in Seq(S), NEW sep \in S,
           Free(a, sep), Free(b, sep)
    PROVE  LET s == (a \o <<sep>>) \o b
           IN  InTwo(s, sep) /\ Left(s, sep) = a /\ Right(s, sep) = b
<1> DEFINE s == (a \o <<sep>>) \o b
           k == Len(a)
           m == Len(b)
<1>1. /\ s \in Seq(S) /\ k \in Nat /\ m \in Nat /\ Len(s) = k + 1 + m
      /\ DOMAIN s = 1 .. k + 1 + m /\ DOMAIN a = 1 .. k /\ DOMAIN b = 1 .. m
      /\ \A i \in 1 .. k : s[i] = a[i]
      /\ s[k + 1] = sep
      /\ \A i \in 1 .. m : s[k + 1 + i] = b[i]
  OBVIOUS
<1> HIDE DEF s, k, m
<1>2. At(s, sep) = {k + 1}
  <2>1. ASSUME NEW i \in 1 .. k + 1 + m, i # k + 1 PROVE s[i] # sep
    <3>1. CASE i \in 1 .. k
      BY <1>1, <3>1 DEF Free
    <3>2. CASE i \notin 1 .. k
      <4> DEFINE j == i - (k + 1)
      <4>1. j \in 1 .. m /\ i = k + 1 + j
        BY <1>1, <2>1, <3>2
      <4> HIDE DEF j
      <4>2. s[k + 1 + j] = b[j]
        BY <1>1, <4>1
      <4>3. b[j] # sep
        BY <1>1, <4>1 DEF Free
      <4>4. QED
        BY <4>1, <4>2, <4>3
    <3>3. QED
      BY <3>1, <3>2
  <2>2. k + 1 \in 1 .. k + 1 + m
    BY <1>1
  <2>3. QED
    BY <1>1, <2>1, <2>2 DEF At
<1>3. InTwo(s, sep)
  BY <1>2, FS_Singleton DEF InTwo
<1>4. Min(At(s, sep)) = k + 1
  <2>1. Min({k + 1}) = k + 1
    BY <1>1 DEF Min
  <2>2. QED
    BY <1>2, <2>1
<1>5. Left(s, sep) = a
  <2>1. Left(s, sep) = SubSeq(s, 1, k)
    BY <1>1, <1>4 DEF Left
  <2>2. SubSeq(s, 1, k) \in Seq(S) /\ Len(SubSeq(s, 1, k)) = k
        /\ \A i \in 1 .. k : SubSeq(s, 1, k)[i] = s[i]
    BY <1>1
  <2> DEFINE t == SubSeq(s, 1, k)
  <2> HIDE DEF t
  <2>3. t = a
    <3>1. t \in Seq(S) /\ Len(t) = Len(a) /\ \A i \in 1 .. Len(t) : t[i] = a[i]
      BY <1>1, <2>2 DEF t, k
    <3>2. QED
      BY <3>1, SeqEqual
  <2>4. QED
    BY <2>1, <2>3 DEF t
<1>6. Right(s, sep) = b
  <2>1. Right(s, sep) = SubSeq(s, k + 2, k + 1 + m)
    <3>1. (k + 1) + 1 = k + 2 /\ Len(s) = k + 1 + m
      BY <1>1
    <3>2. Right(s, sep) = SubSeq(s, (k + 1) + 1, Len(s))
      BY <1>4 DEF Right
    <3>3. QED
      BY <3>1, <3>2
  <2>2. SubSeq(s, k + 2, k + 1 + m) \in Seq(S) /\ Len(SubSeq(s, k + 2, k + 1 + m)) = m
        /\ \A i \in 1 .. m : SubSeq(s, k + 2, k + 1 + m)[i] = s[k + 1 + i]
    BY <1>1
  <2> DEFINE t == SubSeq(s, k + 2, k + 1 + m)
  <2> HIDE DEF t
  <2>3. t = b
    <3>1. t \in Seq(S) /\ Len(t) = Len(b) /\ \A i \in 1 .. Len(t) : t[i] = b[i]
      BY <1>1, <2>2 DEF t, m
    <3>2. QED
      BY <3>1, SeqEqual
  <2>4. QED
    BY <2>1, <2>3 DEF t
<1>7. QED
  BY <1>3, <1>5, <1>6 DEF s

Text == Words \cup {":", "@"}

Host(r) == IF r.host = None THEN <<>> ELSE <<r.host>> \o Optional(":", r.port)

(* Words are not separators.                                               *)
LEMMA WordsAreNone ==
    /\ \A w \in Words : w \in Text /\ w # ":" /\ w # "@"
    /\ ":" \in Text /\ "@" \in Text
BY WordsAssumption DEF Text

(* What is put together of q and r.                                        *)
LEMMA Together ==
    ASSUME NEW S, NEW q \in Seq(S), NEW r \in Seq(S), NEW t \in Seq(S),
           Len(t) = Len(q) + Len(r),
           \A i \in 1 .. Len(q) : t[i] = q[i],
           \A i \in 1 .. Len(r) : t[Len(q) + i] = r[i]
    PROVE  q \o r = t
<1> DEFINE s == q \o r
           k == Len(q)
           m == Len(r)
<1>1. /\ s \in Seq(S) /\ k \in Nat /\ m \in Nat /\ Len(s) = k + m
      /\ \A i \in 1 .. k : s[i] = q[i]
      /\ \A i \in 1 .. m : s[k + i] = r[i]
  OBVIOUS
<1>2. \A i \in 1 .. k + m : i \in 1 .. k \/ (i - k \in 1 .. m /\ k + (i - k) = i)
  BY <1>1
<1> HIDE DEF s, k, m
<1>3. \A i \in 1 .. k + m : s[i] = t[i]
  <2>1. ASSUME NEW i \in 1 .. k + m PROVE s[i] = t[i]
    <3>1. CASE i \in 1 .. k
      BY <1>1, <3>1 DEF k
    <3>2. CASE i \notin 1 .. k
      <4> DEFINE j == i - k
      <4>1. j \in 1 .. m /\ k + j = i
        BY <1>2, <3>2
      <4> HIDE DEF j
      <4>2. s[k + j] = r[j] /\ t[k + j] = r[j]
        BY <1>1, <4>1 DEF k, m
      <4>3. QED
        BY <4>1, <4>2
    <3>3. QED
      BY <3>1, <3>2
  <2>2. QED
    BY <2>1
<1>4. s \in Seq(S) /\ Len(s) = Len(t) /\ \A i \in 1 .. Len(s) : s[i] = t[i]
  BY <1>1, <1>3 DEF k, m
<1>5. s = t
  BY <1>4, SeqEqual
<1>6. QED
  BY <1>5 DEF s

(* Three words, however they are put together.                             *)
LEMMA Triples ==
    ASSUME NEW S, NEW a \in S, NEW b \in S, NEW c \in S
    PROVE  <<a>> \o <<b, c>> = <<a, b, c>> /\ (<<a>> \o <<b>>) \o <<c>> = <<a, b, c>>
<1>1. /\ <<a>> \in Seq(S) /\ <<b>> \in Seq(S) /\ <<c>> \in Seq(S)
      /\ <<a, b>> \in Seq(S) /\ <<b, c>> \in Seq(S) /\ <<a, b, c>> \in Seq(S)
  OBVIOUS
<1>2. <<a>> \o <<b, c>> = <<a, b, c>>
  <2> DEFINE q == <<a>>
             r == <<b, c>>
             t == <<a, b, c>>
  <2>1. Len(q) = 1 /\ Len(r) = 2 /\ Len(t) = 3 /\ t[1] = q[1] /\ t[2] = r[1] /\ t[3] = r[2]
    OBVIOUS
  <2>2. q \in Seq(S) /\ r \in Seq(S) /\ t \in Seq(S)
    BY <1>1
  <2> HIDE DEF q, r, t
  <2>3. /\ Len(t) = Len(q) + Len(r)
        /\ \A i \in 1 .. Len(q) : t[i] = q[i]
        /\ \A i \in 1 .. Len(r) : t[Len(q) + i] = r[i]
    BY <2>1
  <2>4. q \o r = t
    BY <2>2, <2>3, Together
  <2>5. QED
    BY <2>4 DEF q, r, t
<1>3. <<a>> \o <<b>> = <<a, b>>
  <2> DEFINE q == <<a>>
             r == <<b>>
             t == <<a, b>>
  <2>1. Len(q) = 1 /\ Len(r) = 1 /\ Len(t) = 2 /\ t[1] = q[1] /\ t[2] = r[1]
    OBVIOUS
  <2>2. q \in Seq(S) /\ r \in Seq(S) /\ t \in Seq(S)
    BY <1>1
  <2> HIDE DEF q, r, t
  <2>3. /\ Len(t) = Len(q) + Len(r)
        /\ \A i \in 1 .. Len(q) : t[i] = q[i]
        /\ \A i \in 1 .. Len(r) : t[Len(q) + i] = r[i]
    BY <2>1
  <2>4. q \o r = t
    BY <2>2, <2>3, Together
  <2>5. QED
    BY <2>4 DEF q, r, t
<1>4. <<a, b>> \o <<c>> = <<a, b, c>>
  <2> DEFINE q == <<a, b>>
             r == <<c>>
             t == <<a, b, c>>
  <2>1. Len(q) = 2 /\ Len(r) = 1 /\ Len(t) = 3 /\ t[1] = q[1] /\ t[2] = q[2] /\ t[3] = r[1]
    OBVIOUS
  <2>2. q \in Seq(S) /\ r \in Seq(S) /\ t \in Seq(S)
    BY <1>1
  <2> HIDE DEF q, r, t
  <2>3. /\ Len(t) = Len(q) + Len(r)
        /\ \A i \in 1 .. Len(q) : t[i] = q[i]
        /\ \A i \in 1 .. Len(r) : t[Len(q) + i] = r[i]
    BY <2>1
  <2>4. q \o r = t
    BY <2>2, <2>3, Together
  <2>5. QED
    BY <2>4 DEF q, r, t
<1>5. QED
  BY <1>2, <1>3, <1>4

(* The parts of a login of the documented form.                            *)
LEMMA PassParts ==
    ASSUME NEW u \in Words, NEW p \in Words \cup {None}
    PROVE  LET a == <<u>> \o Optional(":", p)
           IN  /\ a \in Seq(Text) /\ Free(a, "@")
               /\ getUserPass(a).user = <<u>>
               /\ getUserPass(a).pass = IF p = None THEN <<>> ELSE <<p>>
<1> DEFINE a == <<u>> \o Optional(":", p)
<1>1. CASE p = None
  <2>1. a = <<u>>
    BY <1>1 DEF Optional
  <2>2. <<u>> \in Seq(Text) /\ Free(<<u>>, "@") /\ Free(<<u>>, ":")
    BY WordsAreNone DEF Free
  <2>3. ~ InTwo(<<u>>, ":")
    BY <2>2, NoSplit
  <2>4. QED
    BY <1>1, <2>1, <2>2, <2>3 DEF getUserPass
<1>2. CASE p # None
  <2>0. p \in Words
    BY <1>2
  <2>1. a = (<<u>> \o <<":">>) \o <<p>> /\ a = <<u, ":", p>>
    <3>1. a = <<u>> \o <<":", p>>
      BY <1>2 DEF Optional
    <3>2. u \in Text /\ p \in Text /\ ":" \in Text
      BY <2>0, WordsAreNone
    <3>3. <<u>> \o <<":", p>> = <<u, ":", p>> /\ (<<u>> \o <<":">>) \o <<p>> = <<u, ":", p>>
      BY <3>2, Triples
    <3> HIDE DEF a
    <3>4. QED
      BY <3>1, <3>3
  <2>2. /\ <<u>> \in Seq(Text) /\ <<p>> \in Seq(Text) /\ ":" \in Text
        /\ Free(<<u>>, ":") /\ Free(<<p>>, ":")
    BY <2>0, WordsAreNone DEF Free
  <2>3. InTwo(a, ":") /\ Left(a, ":") = <<u>> /\ Right(a, ":") = <<p>>
    <3> DEFINE q == <<u>>
               r == <<p>>
    <3>1. q \in Seq(Text) /\ r \in Seq(Text) /\ ":" \in Text /\ Free(q, ":") /\ Free(r, ":")
      BY <2>2
    <3> HIDE DEF q, r
    <3>2. InTwo((q \o <<":">>) \o r, ":") /\ Left((q \o <<":">>) \o r, ":") = q
          /\ Right((q \o <<":">>) \o r, ":") = r
      BY <3>1, Split
    <3>3. QED
      BY <2>1, <3>2 DEF q, r
  <2>4. a \in Seq(Text)
    <3>1. <<u, ":", p>> \in Seq(Text)
      BY <2>0, WordsAreNone
    <3>2. QED
      BY <2>1, <3>1
  <2>5. Free(a, "@")
    <3>1. \A i \in DOMAIN <<u, ":", p>> : <<u, ":", p>>[i] # "@"
      BY <2>0, WordsAreNone
    <3>2. QED
      BY <2>1, <3>1 DEF Free
  <2> HIDE DEF a
  <2>6. QED
    BY <1>2, <2>3, <2>4, <2>5 DEF getUserPass, a
<1>3. QED
  BY <1>1, <1>2

(* What strings.Split and addPort make of the part behind "@".             *)
LEMMA HostParts ==
    ASSUME NEW r \in Parts
    PROVE  /\ r.user \in Words /\ r.pass \in Words \cup {None}
           /\ r.host # None => Host(r) \in Seq(Text) /\ Free(Host(r), "@")
           /\ addPort(Host(r)) = Address(r)
<1>1. /\ r.user \in Words /\ r.pass \in Words \cup {None} /\ r.host \in Words \cup {None}
      /\ r.port \in Words \cup {None} /\ (r.port # None => r.host # None)
  BY DEF Parts
<1> DEFINE h == r.host
           p == r.port
<1>2. CASE h = None
  BY <1>1, <1>2 DEF Host, addPort, Address
<1>3. CASE h # None /\ p = None
  <2>1. Host(r) = <<h>> /\ h \in Words
    BY <1>1, <1>3 DEF Host, Optional
  <2> HIDE DEF h
  <2>2. <<h>> \in Seq(Text) /\ Free(<<h>>, "@") /\ Free(<<h>>, ":") /\ <<h>> # <<>>
    BY <2>1, WordsAreNone DEF Free
  <2>3. At(<<h>>, ":") = {}
    BY <2>2, NoSplit
  <2>4. addPort(<<h>>) = <<h, ":", "3306">>
    <3>1. <<h>> \o <<":", "3306">> = <<h, ":", "3306">>
      <4> DEFINE S == {h, ":", "3306"}
      <4>1. h \in S /\ ":" \in S /\ "3306" \in S
        OBVIOUS
      <4> HIDE DEF S
      <4>2. QED
        BY <4>1, Triples
    <3>2. QED
      BY <2>2, <2>3, <3>1 DEF addPort
  <2>5. QED
    BY <1>1, <1>3, <2>1, <2>2, <2>4 DEF Address, h
<1>4. CASE h # None /\ p # None
  <2>1. Host(r) = <<h, ":", p>> /\ h \in Words /\ p \in Words
    <3>1. Host(r) = <<h>> \o <<":", p>> /\ h \in Words /\ p \in Words
      BY <1>1, <1>4 DEF Host, Optional
    <3> HIDE DEF h, p
    <3>2. h \in Text /\ p \in Text /\ ":" \in Text
      BY <3>1, WordsAreNone
    <3>3. QED
      BY <3>1, <3>2, Triples
  <2> HIDE DEF h, p
  <2>2. <<h, ":", p>> \in Seq(Text) /\ Free(<<h, ":", p>>, "@") /\ <<h, ":", p>> # <<>>
    BY <2>1, WordsAreNone DEF Free
  <2>3. 2 \in At(<<h, ":", p>>, ":")
    BY DEF At
  <2>4. addPort(<<h, ":", p>>) = <<h, ":", p>>
    BY <2>2, <2>3 DEF addPort
  <2>5. QED
    BY <1>1, <1>4, <2>1, <2>2, <2>4 DEF Address, h, p
<1>5. QED
  BY <1>2, <1>3, <1>4

(* getTargetInfo and addPort take such a login for what it says            *)
(* (proxysrv.go:131-173).                                                  *)
LEMMA TakenApart ==
    ASSUME NEW r \in Parts
    PROVE  LET info == getTargetInfo(Name(r))
           IN  /\ info.user = <<r.user>> /\ addPort(info.server) = Address(r)
               /\ info.pass = IF r.pass = None THEN <<>> ELSE <<r.pass>>
<1> DEFINE a == <<r.user>> \o Optional(":", r.pass)
           s == Name(r)
<1>1. /\ a \in Seq(Text) /\ Free(a, "@") /\ getUserPass(a).user = <<r.user>>
      /\ getUserPass(a).pass = IF r.pass = None THEN <<>> ELSE <<r.pass>>
  BY HostParts, PassParts
<1>2. addPort(Host(r)) = Address(r)
  BY HostParts
<1>3. getTargetInfo(s) =
         [user |-> getUserPass(IF InTwo(s, "@") THEN Left(s, "@") ELSE s).user,
          pass |-> getUserPass(IF InTwo(s, "@") THEN Left(s, "@") ELSE s).pass,
          server |-> IF InTwo(s, "@") THEN Right(s, "@") ELSE <<>>]
  BY DEF getTargetInfo
<1>4. CASE r.host = None
  <2>1. s = a /\ Host(r) = <<>>
    <3>1. s = (a \o <<>>) \o <<>> /\ Host(r) = <<>>
      BY <1>4 DEF Name, Optional, Parts, Host
    <3> HIDE DEF a, s
    <3>2. QED
      BY <1>1, <3>1
  <2> HIDE DEF a, s
  <2>2. ~ InTwo(s, "@")
    BY <1>1, <2>1, NoSplit
  <2>3. QED
    BY <1>1, <1>2, <1>3, <2>1, <2>2 DEF s
<1>5. CASE r.host # None
  <2> DEFINE b == Host(r)
  <2>1. b \in Seq(Text) /\ Free(b, "@") /\ "@" \in Text
    BY <1>5, HostParts, WordsAreNone
  <2>2. s = (a \o <<"@">>) \o b
    <3>1. /\ Optional("@", r.host) = <<"@">> \o <<r.host>>
          /\ b = <<r.host>> \o Optional(":", r.port)
      BY <1>5 DEF Optional, Host
    <3>2. <<r.host>> \in Seq(Text) /\ Optional(":", r.port) \in Seq(Text) /\ <<"@">> \in Seq(Text)
      BY <1>5, WordsAreNone DEF Parts, Optional
    <3> DEFINE h == <<r.host>>
               p == Optional(":", r.port)
    <3>3. s = (a \o (<<"@">> \o h)) \o p
      BY <3>1 DEF Name
    <3> HIDE DEF a, b, s, h, p
    <3>4. a \in Seq(Text) /\ h \in Seq(Text) /\ p \in Seq(Text) /\ b = h \o p
      BY <1>1, <3>1, <3>2 DEF h, p
    <3>5. (a \o (<<"@">> \o h)) \o p = (a \o <<"@">>) \o (h \o p)
      BY <3>2, <3>4
    <3>6. QED
      BY <3>3, <3>4, <3>5
  <2> HIDE DEF a, b, s
  <2>3. InTwo(s, "@") /\ Left(s, "@") = a /\ Right(s, "@") = b
    BY <1>1, <2>1, <2>2, Split
  <2>4. QED
    BY <1>1, <1>2, <1>3, <2>3 DEF s, b
<1>6. QED
  BY <1>4, <1>5

-----------------------------------------------------------------------------
(* What a session has found out.                                           *)

(* The rows that a call that begins now will have read.                    *)
OnFile == IF file.state = "whole" THEN file.rows ELSE DefaultRows

(* What GetPassword makes of the rows q.                                   *)
Fits(name, q) == {i \in DOMAIN q : name \in Matches[q[i].user]}

Given(name, q) ==
    IF Fits(name, q) = {} \/ NoText(q[Min(Fits(name, q))]) THEN Answer("error", 0, <<>>)
    ELSE Answer("ok", 0, <<[q[Min(Fits(name, q))] EXCEPT !.enc = @ - 1]>>)

Asking  == {"checking", "fetching"}
Proving == {"lookup", "fetching", "connect", "relay"}
Ready   == {"connect", "relay"}
Stages  == {"none", "admin", "checking"} \cup Proving

SessionTypes ==
    /\ stage \in [Clients -> Stages]
    /\ proven = [d \in Clients |-> proven[d]]
    /\ target = [d \in Clients |-> target[d]]

(* An account the name may have, unless texts were mixed.                  *)
Fitting(name, r, glued) == name \in Matches[r.user] /\ (glued \/ MayHave(r))

(* It stays one.                                                           *)
LEMMA FittingStays ==
    \A name, r : (mixed => mixed') /\ Fitting(name, r, mixed) => Fitting(name, r, mixed')
BY DEF Fitting

(* The call in which a session asks for a password.                        *)
AsksOwn(c) ==
    /\ stage[c] \in {"none", "lookup"} \cup Ready => pc[c] = "idle"
    /\ stage[c] \notin {"none", "admin"} => login[c] \in Logins
    /\ stage[c] \in Asking /\ pc[c] # "idle" =>
          /\ op[c] = LoginOf(c) /\ pc[c] \in {"open", "reading", "reindex", "loaded"}
          /\ pc[c] = "open" => conf[c] = DefaultRows
          /\ c \notin touched => sight[c] = "clear" /\ (pc[c] # "open" => conf[c] = OnFile)
    /\ stage[c] \in Asking /\ pc[c] = "idle" =>
          /\ c \notin touched => answer[c] = Given(login[c], OnFile)
          /\ answer[c].status = "ok" =>
                \E r : answer[c] = Answer("ok", 0, <<r>>) /\ Fitting(login[c], r, mixed)

(* What it goes by.                                                        *)
GoesBy(c) ==
    /\ stage[c] \in Proving =>
          /\ target[c] = [user |-> getTargetInfo(login[c]).user,
                          addr |-> addPort(getTargetInfo(login[c]).server),
                          account |-> target[c].account]
          /\ c \notin touched => Given(login[c], OnFile) = Answer("ok", 0, <<proven[c]>>)
    /\ stage[c] \in {"lookup", "fetching"} => getTargetInfo(login[c]).pass = <<>>
    /\ stage[c] \in Ready /\ getTargetInfo(login[c]).pass # <<>> =>
          target[c].account = getTargetInfo(login[c]).pass
    /\ stage[c] \in Ready /\ getTargetInfo(login[c]).pass = <<>> =>
          /\ c \notin touched => target[c].account = proven[c]
          /\ target[c].account # None => Fitting(login[c], target[c].account, mixed)

SessionOK(c) == AsksOwn(c) /\ GoesBy(c)

(* Nothing of the session of d changes, and the file only if d is touched. *)
Undisturbed(d) ==
    /\ pc'[d] = pc[d] /\ op'[d] = op[d] /\ conf'[d] = conf[d] /\ answer'[d] = answer[d]
    /\ stage'[d] = stage[d] /\ login'[d] = login[d]
    /\ proven'[d] = proven[d] /\ target'[d] = target[d]
    /\ mixed => mixed'
    /\ d \notin touched' /\ stage[d] \notin {"none", "admin"} =>
          d \notin touched /\ file' = file /\ (sight[d] = "clear" => sight'[d] = "clear")

(* The file alone decides.                                                 *)
LEMMA OnFileSame == file' = file => OnFile' = OnFile
BY DEF OnFile, DefaultRows, Encrypted

(* A session that is left alone knows what it knew.                        *)
LEMMA UndisturbedOK ==
    ASSUME NEW d, SessionOK(d), Undisturbed(d)
    PROVE  SessionOK(d)'
<1>1. d \notin touched' /\ stage[d] \notin {"none", "admin"} =>
         d \notin touched /\ OnFile' = OnFile /\ (sight[d] = "clear" => sight'[d] = "clear")
  BY OnFileSame DEF Undisturbed
<1>0. \A name, r : Fitting(name, r, mixed) => Fitting(name, r, mixed')
  BY FittingStays DEF Undisturbed
<1>2. AsksOwn(d)'
  <2>1. stage'[d] \in Asking => stage[d] \notin {"none", "admin"}
    BY DEF Undisturbed, Asking
  <2>2. DefaultRows' = DefaultRows
    BY DEF DefaultRows, Encrypted
  <2>3. AsksOwn(d)
    BY DEF SessionOK
  <2>4. stage'[d] \in {"none", "lookup"} \cup Ready => pc'[d] = "idle"
    BY <2>3 DEF AsksOwn, Undisturbed
  <2>5. stage'[d] \notin {"none", "admin"} => login'[d] \in Logins
    BY <2>3 DEF AsksOwn, Undisturbed
  <2>6. stage'[d] \in Asking /\ pc'[d] # "idle" =>
          /\ op'[d] = LoginOf(d)' /\ pc'[d] \in {"open", "reading", "reindex", "loaded"}
          /\ pc'[d] = "open" => conf'[d] = DefaultRows
          /\ d \notin touched' => sight'[d] = "clear" /\ (pc'[d] # "open" => conf'[d] = OnFile')
    BY <1>1, <2>1, <2>3 DEF AsksOwn, Undisturbed, LoginOf
  <2>7. stage'[d] \in Asking /\ pc'[d] = "idle" =>
          /\ d \notin touched' => answer'[d] = Given(login'[d], OnFile')
          /\ answer'[d].status = "ok" =>
                \E r : answer'[d] = Answer("ok", 0, <<r>>) /\ Fitting(login'[d], r, mixed')
    BY <1>0, <1>1, <2>1, <2>3 DEF AsksOwn, Undisturbed
  <2>8. QED
    BY <2>2, <2>4, <2>5, <2>6, <2>7 DEF AsksOwn
<1>3. GoesBy(d)'
  <2>1. stage'[d] \in Proving => stage[d] \notin {"none", "admin"}
    BY DEF Undisturbed, Proving
  <2>2. Ready \subseteq Proving
    BY DEF Ready, Proving
  <2>3. GoesBy(d)
    BY DEF SessionOK
  <2> DEFINE U(s) == getTargetInfo(s).user
             A(s) == addPort(getTargetInfo(s).server)
             P(s) == getTargetInfo(s).pass
  <2>4. stage'[d] \in Proving =>
          /\ target'[d] = [user |-> U(login'[d]), addr |-> A(login'[d]),
                           account |-> target'[d].account]
          /\ d \notin touched' => Given(login'[d], OnFile') = Answer("ok", 0, <<proven'[d]>>)
    BY <1>1, <2>1, <2>3 DEF GoesBy, Undisturbed
  <2>5. stage'[d] \in {"lookup", "fetching"} => P(login'[d]) = <<>>
    BY <2>3 DEF GoesBy, Undisturbed
  <2>6. /\ stage'[d] \in Ready /\ P(login'[d]) # <<>> => target'[d].account = P(login'[d])
        /\ stage'[d] \in Ready /\ P(login'[d]) = <<>> =>
              /\ d \notin touched' => target'[d].account = proven'[d]
              /\ target'[d].account # None => Fitting(login'[d], target'[d].account, mixed')
    BY <1>0, <1>1, <2>1, <2>2, <2>3 DEF GoesBy, Undisturbed
  <2>7. QED
    BY <2>4, <2>5, <2>6 DEF GoesBy
<1>4. QED
  BY <1>2, <1>3 DEF SessionOK

Setup == StoreOK(Asked) /\ SightOK /\ NamesOK /\ SessionTypes

(* The other sessions.                                                     *)
LEMMA OthersUndisturbed ==
    ASSUME Setup, NEW c \in Clients, sessionWorker(c), NEW d \in Clients \ {c}
    PROVE  Undisturbed(d)
<1>0. CallsOK(Asked)
  BY DEF Setup, StoreOK
<1> DEFINE Calm == /\ pc'[d] = pc[d] /\ op'[d] = op[d]
                   /\ conf'[d] = conf[d] /\ answer'[d] = answer[d]
           Known == file' = file /\ sight' = sight /\ mixed' = mixed
           Still == /\ stage'[d] = stage[d] /\ login'[d] = login[d]
                    /\ proven'[d] = proven[d] /\ target'[d] = target[d]
           Clear == /\ mixed => mixed'
                    /\ d \notin touched' /\ stage[d] \notin {"none", "admin"} =>
                          /\ d \notin touched /\ file' = file
                          /\ sight[d] = "clear" => sight'[d] = "clear"
<1>1. ASSUME NEW st \in Asked, Call(c, st) PROVE Calm /\ Known
  <2>1. Calm
    BY <1>0, <1>1, OthersStay DEF Elsewhere
  <2>2. QED
    BY <1>1, <2>1 DEF Call, readVars
<1>2. ASSUME UNCHANGED vars PROVE Calm /\ Known
  BY <1>2 DEF vars, clientVars, readVars
<1>3. ASSUME UNCHANGED <<login, proven, target>>,
             stage' = stage \/ \E to : stage' = [stage EXCEPT ![c] = to]
      PROVE  Still
  BY <1>3 DEF Setup, SessionTypes
<1>4. CASE Handshake(c)
  <2>1. PICK name \in Logins : /\ login' = [login EXCEPT ![c] = name]
                               /\ Call(c, [kind |-> "login", name |-> name])
    BY <1>4 DEF Handshake
  <2>2. [kind |-> "login", name |-> name] \in Asked
    BY DEF Asked, LoginCalls
  <2>3. Calm /\ Known
    BY <1>1, <2>1, <2>2
  <2>4. Still
    BY <1>4, <2>1 DEF Handshake, StageGoes, Setup, SessionTypes, NamesOK
  <2>5. Clear
    BY <1>4, <2>3 DEF Handshake
  <2>6. QED
    BY <2>3, <2>4, <2>5 DEF Undisturbed
<1>5. CASE Lookup(c) \/ Administers(c)
  <2>1. PICK st \in Asked : Call(c, st)
    <3>1. LoginOf(c) \in Asked
      BY DEF LoginOf, Asked, LoginCalls, Setup, NamesOK
    <3>2. QED
      BY <1>5, <3>1 DEF Lookup, Administers, Asked
  <2>2. Calm /\ Known
    BY <1>1, <2>1
  <2>3. Still
    BY <1>3, <1>5 DEF Lookup, Administers, StageGoes
  <2>4. Clear
    BY <1>5, <2>2 DEF Lookup, Administers
  <2>5. QED
    BY <2>2, <2>3, <2>4 DEF Undisturbed
<1>6. CASE Authenticated(c) \/ Fetched(c) \/ Connects(c) \/ Leaves(c)
  <2>1. Calm /\ Known
    BY <1>2, <1>6 DEF Authenticated, Fetched, Connects, Leaves
  <2>2. stage'[d] = stage[d]
    BY <1>6 DEF Authenticated, Fetched, Connects, Leaves, StageGoes, Setup, SessionTypes
  <2>3. login'[d] = login[d] /\ proven'[d] = proven[d] /\ target'[d] = target[d]
    <3>1. login' = login \/ login' = [login EXCEPT ![c] = <<>>]
      BY <1>6 DEF Authenticated, Fetched, Connects, Leaves
    <3>2. proven' = proven \/ \E v : proven' = [proven EXCEPT ![c] = v]
      BY <1>6 DEF Authenticated, Fetched, Connects, Leaves
    <3>3. target' = target \/ \E v : target' = [target EXCEPT ![c] = v]
      BY <1>6 DEF Authenticated, Fetched, Connects, Leaves
    <3>4. QED
      BY <3>1, <3>2, <3>3 DEF Setup, SessionTypes, NamesOK
  <2>4. Clear
    BY <1>6, <2>1 DEF Authenticated, Fetched, Connects, Leaves
  <2>5. QED
    BY <2>1, <2>2, <2>3, <2>4 DEF Undisturbed
<1>7. CASE Works(c)
  <2>1. Calm
    BY <1>0, <1>7, OthersStay DEF Works, Elsewhere
  <2>2. Still
    BY <1>3, <1>7 DEF Works
  <2>3. Clear
    <3>1. mixed => mixed'
      BY <1>7, MixedStays DEF Works, Moves
    <3>2. QED
      BY <1>7, <3>1 DEF Works
  <2>4. QED
    BY <2>1, <2>2, <2>3 DEF Undisturbed
<1>8. QED
  BY <1>4, <1>5, <1>6, <1>7 DEF sessionWorker

(* The types.                                                              *)
LEMMA TypesStep ==
    ASSUME SessionTypes, NEW c \in Clients, sessionWorker(c)
    PROVE  SessionTypes'
<1>1. ASSUME NEW to \in Stages, stage' = [stage EXCEPT ![c] = to]
      PROVE  stage' \in [Clients -> Stages]
  BY <1>1 DEF SessionTypes
<1>2. stage' \in [Clients -> Stages]
  <2>1. CASE Works(c)
    BY <2>1 DEF Works, SessionTypes
  <2>2. CASE Authenticated(c)
    BY <1>1, <2>2 DEF Authenticated, StageGoes, Stages, Proving
  <2>3. CASE Leaves(c)
    BY <1>1, <2>3 DEF Leaves, StageGoes, Stages, Proving
  <2>4. QED
    BY <1>1, <2>1, <2>2, <2>3 DEF sessionWorker, Handshake, Lookup, Fetched, Connects, Administers,
       StageGoes, Stages, Proving
<1>3. proven' = [d \in Clients |-> proven'[d]]
  <2>1. proven' = proven \/ \E v : proven' = [proven EXCEPT ![c] = v]
    BY DEF sessionWorker, Handshake, Authenticated, Lookup, Fetched, Connects, Administers, Works,
       Leaves
  <2>2. QED
    BY <2>1 DEF SessionTypes
<1>4. target' = [d \in Clients |-> target'[d]]
  <2>1. target' = target \/ \E v : target' = [target EXCEPT ![c] = v]
    BY DEF sessionWorker, Handshake, Authenticated, Lookup, Fetched, Connects, Administers, Works,
       Leaves
  <2>2. QED
    BY <2>1 DEF SessionTypes
<1>5. QED
  BY <1>2, <1>3, <1>4 DEF SessionTypes

(* What GetPassword answers.                                               *)
LEMMA GivenFits ==
    ASSUME NEW name, NEW q \in Seq(Owned), Given(name, q).status = "ok"
    PROVE  \E r : Given(name, q) = Answer("ok", 0, <<r>>) /\ Fitting(name, r, mixed)
<1> DEFINE m == Fits(name, q)
           r == q[Min(m)]
           s == [r EXCEPT !.enc = @ - 1]
<1>1. m # {} /\ ~ NoText(r)
  BY DEF Given, Answer
<1>2. m \subseteq Nat
  BY DEF Fits
<1> HIDE DEF m
<1>3. Min(m) \in m
  BY <1>1, <1>2, Smallest
<1>4. r \in Owned /\ name \in Matches[r.user]
  BY <1>3 DEF Fits, m
<1>5. Given(name, q) = Answer("ok", 0, <<s>>)
  BY <1>1 DEF Given, m
<1> HIDE DEF r
<1>6. s.user = r.user /\ s.pw = r.pw
  BY <1>4 DEF Owned, Rows
<1>7. mixed \/ MayHave(s)
  BY <1>4, <1>6 DEF Owned, MayHave
<1> HIDE DEF s
<1>8. QED
  BY <1>4, <1>5, <1>6, <1>7 DEF Fitting

(* A session that is not in a call, and asks for nothing, is where it was. *)
LEMMA Quiet ==
    ASSUME NEW c, UNCHANGED vars
    PROVE  /\ pc'[c] = pc[c] /\ op'[c] = op[c] /\ conf'[c] = conf[c] /\ answer'[c] = answer[c]
           /\ OnFile' = OnFile /\ mixed' = mixed
BY OnFileSame DEF vars, clientVars, readVars

(* It begins to ask.                                                       *)
LEMMA AskStep ==
    ASSUME Setup, NEW c \in Clients, SessionOK(c), NEW name,
           stage'[c] \in Asking, login'[c] = name, name \in Logins,
           [kind |-> "login", name |-> name] \in Asked,
           Call(c, [kind |-> "login", name |-> name])
    PROVE  AsksOwn(c)'
<1>1. CallsOK(Asked)
  BY DEF Setup, StoreOK
<1>2. /\ pc'[c] = "open" /\ op'[c] = [kind |-> "login", name |-> name] /\ conf'[c] = DefaultRows
      /\ sight'[c] = "clear"
  BY <1>1 DEF Call, Goto, CallsOK, readVars, Setup, SightOK
<1>3. DefaultRows' = DefaultRows
  BY DEF DefaultRows, Encrypted
<1>4. QED
  BY <1>2, <1>3 DEF AsksOwn, Asking, Ready, LoginOf

(* The steps of a session, one by one, keep what it knows.                 *)
LEMMA HandshakeOK ==
    ASSUME Setup, NEW c \in Clients, SessionOK(c), Handshake(c)
    PROVE  SessionOK(c)'
<1>1. PICK name \in Logins : /\ login' = [login EXCEPT ![c] = name]
                             /\ Call(c, [kind |-> "login", name |-> name])
  BY DEF Handshake
<1>2. stage'[c] = "checking" /\ login'[c] = name
  BY <1>1 DEF Handshake, StageGoes, Setup, SessionTypes, NamesOK
<1>3. [kind |-> "login", name |-> name] \in Asked
  BY DEF Asked, LoginCalls
<1>4. AsksOwn(c)'
  BY <1>1, <1>2, <1>3, AskStep DEF Asking
<1>5. GoesBy(c)'
  BY <1>2 DEF GoesBy, Proving, Ready
<1>6. QED
  BY <1>4, <1>5 DEF SessionOK

(* The second look-up, for a name without a password, keeps the session's  *)
(* invariant ...                                                           *)
LEMMA LookupOK ==
    ASSUME Setup, NEW c \in Clients, SessionOK(c), Lookup(c)
    PROVE  SessionOK(c)'
<1>1. /\ stage[c] = "lookup" /\ stage'[c] = "fetching" /\ Call(c, LoginOf(c))
      /\ UNCHANGED <<login, proven, target, touched, file>>
  BY DEF Lookup, StageGoes, Setup, SessionTypes, Call
<1>2. login[c] \in Logins /\ LoginOf(c) = [kind |-> "login", name |-> login[c]]
  BY <1>1 DEF SessionOK, AsksOwn, LoginOf
<1>3. LoginOf(c) \in Asked
  BY <1>2 DEF Asked, LoginCalls
<1>4. AsksOwn(c)'
  BY <1>1, <1>2, <1>3, AskStep DEF Asking
<1>5. OnFile' = OnFile
  BY <1>1, OnFileSame
<1>6. GoesBy(c)
  BY DEF SessionOK
<1>7. GoesBy(c)'
  BY <1>1, <1>5, <1>6 DEF GoesBy, Proving, Ready
<1>8. QED
  BY <1>4, <1>7 DEF SessionOK

(* ... and so do the end of the handshake,                                 *)
LEMMA AuthenticatedOK ==
    ASSUME Setup, NEW c \in Clients, SessionOK(c), Authenticated(c)
    PROVE  SessionOK(c)'
<1> DEFINE info == getTargetInfo(login[c])
<1>1. /\ pc[c] = "idle" /\ stage[c] = "checking" /\ answer[c].status = "ok"
      /\ stage'[c] = IF login[c] = AdminUser THEN "admin"
                     ELSE IF info.pass = <<>> THEN "lookup" ELSE "connect"
      /\ UNCHANGED <<vars, login, touched>>
  BY DEF Authenticated, StageGoes, Setup, SessionTypes
<1>2. proven'[c] = IF login[c] = AdminUser THEN None ELSE answer[c].rows[1]
  BY DEF Authenticated, Setup, SessionTypes
<1>3. login[c] # AdminUser =>
         target'[c] = [user |-> info.user, addr |-> addPort(info.server),
                       account |-> IF info.pass = <<>> THEN None ELSE info.pass]
  BY DEF Authenticated, Setup, SessionTypes
<1>4. /\ login[c] \in Logins
      /\ c \notin touched => answer[c] = Given(login[c], OnFile)
      /\ \E r : answer[c] = Answer("ok", 0, <<r>>) /\ Fitting(login[c], r, mixed)
  BY <1>1 DEF SessionOK, AsksOwn, Asking
<1>5. pc'[c] = "idle" /\ OnFile' = OnFile
  BY <1>1, Quiet
<1>6. AsksOwn(c)'
  BY <1>1, <1>4, <1>5 DEF AsksOwn, Asking, Ready
<1>7. CASE login[c] = AdminUser
  <2>1. GoesBy(c)'
    BY <1>1, <1>7 DEF GoesBy, Proving, Ready
  <2>2. QED
    BY <1>6, <2>1 DEF SessionOK
<1>8. CASE login[c] # AdminUser
  <2>1. answer[c] = Answer("ok", 0, <<proven'[c]>>)
    <3>1. PICK r : answer[c] = Answer("ok", 0, <<r>>)
      BY <1>4
    <3>2. answer[c].rows[1] = r
      BY <3>1 DEF Answer
    <3>3. QED
      BY <1>2, <1>8, <3>1, <3>2
  <2>2. c \notin touched => Given(login[c], OnFile) = Answer("ok", 0, <<proven'[c]>>)
    BY <1>4, <2>1
  <2>3. stage'[c] = IF info.pass = <<>> THEN "lookup" ELSE "connect"
    BY <1>1, <1>8
  <2>4. GoesBy(c)'
    BY <1>1, <1>3, <1>5, <1>8, <2>2, <2>3 DEF GoesBy, Proving, Ready
  <2>5. QED
    BY <1>6, <2>4 DEF SessionOK
<1>9. QED
  BY <1>7, <1>8

(* the reading of the target's credentials,                                *)
LEMMA FetchedOK ==
    ASSUME Setup, NEW c \in Clients, SessionOK(c), Fetched(c)
    PROVE  SessionOK(c)'
<1> DEFINE info == getTargetInfo(login[c])
           a == IF answer[c].status = "ok" THEN answer[c].rows[1] ELSE None
<1>1. /\ pc[c] = "idle" /\ stage[c] = "fetching" /\ stage'[c] = "connect"
      /\ target' = [target EXCEPT ![c].account = a]
      /\ UNCHANGED <<vars, login, proven, touched>>
  BY DEF Fetched, StageGoes, Setup, SessionTypes
<1>2. GoesBy(c) /\ AsksOwn(c)
  BY DEF SessionOK
<1>3. /\ target[c] = [user |-> info.user, addr |-> addPort(info.server),
                     account |-> target[c].account]
      /\ c \notin touched => Given(login[c], OnFile) = Answer("ok", 0, <<proven[c]>>)
      /\ info.pass = <<>>
  BY <1>1, <1>2 DEF GoesBy, Proving
<1>4. /\ login[c] \in Logins
      /\ c \notin touched => answer[c] = Given(login[c], OnFile)
      /\ answer[c].status = "ok" =>
            \E r : answer[c] = Answer("ok", 0, <<r>>) /\ Fitting(login[c], r, mixed)
  BY <1>1, <1>2 DEF AsksOwn, Asking
<1>5. pc'[c] = "idle" /\ OnFile' = OnFile /\ mixed' = mixed
  BY <1>1, Quiet
<1>6. a # None => Fitting(login[c], a, mixed)
  <2>1. ASSUME answer[c].status = "ok" PROVE Fitting(login[c], answer[c].rows[1], mixed)
    <3>1. PICK r : answer[c] = Answer("ok", 0, <<r>>) /\ Fitting(login[c], r, mixed)
      BY <1>4, <2>1
    <3>2. answer[c].rows[1] = r
      BY <3>1 DEF Answer
    <3>3. QED
      BY <3>1, <3>2
  <2>2. QED
    BY <2>1
<1>7. c \notin touched => a = proven[c]
  <2>1. ASSUME c \notin touched PROVE a = proven[c]
    <3>1. answer[c] = Answer("ok", 0, <<proven[c]>>)
      BY <1>3, <1>4, <2>1
    <3>2. answer[c].status = "ok" /\ answer[c].rows[1] = proven[c]
      BY <3>1 DEF Answer
    <3>3. QED
      BY <3>2
  <2>2. QED
    BY <2>1
<1> HIDE DEF a
<1>8. target'[c] = [user |-> info.user, addr |-> addPort(info.server), account |-> a]
  <2>1. target'[c] = [target[c] EXCEPT !.account = a]
    BY <1>1 DEF Setup, SessionTypes
  <2>2. QED
    BY <1>3, <2>1
<1>9. AsksOwn(c)'
  BY <1>1, <1>4, <1>5 DEF AsksOwn, Asking, Ready
<1>10. GoesBy(c)'
  BY <1>1, <1>3, <1>5, <1>6, <1>7, <1>8 DEF GoesBy, Proving, Ready
<1>11. QED
  BY <1>9, <1>10 DEF SessionOK

(* the connection to the target,                                           *)
LEMMA ConnectsOK ==
    ASSUME Setup, NEW c \in Clients, SessionOK(c), Connects(c)
    PROVE  SessionOK(c)'
<1>1. /\ pc[c] = "idle" /\ stage[c] = "connect" /\ stage'[c] = "relay"
      /\ UNCHANGED <<vars, login, proven, target, touched>>
  BY DEF Connects, StageGoes, Setup, SessionTypes
<1>2. pc'[c] = "idle" /\ OnFile' = OnFile /\ mixed' = mixed
  BY <1>1, Quiet
<1>3. GoesBy(c) /\ AsksOwn(c)
  BY DEF SessionOK
<1>4. AsksOwn(c)'
  BY <1>1, <1>2, <1>3 DEF AsksOwn, Asking, Ready
<1>5. GoesBy(c)'
  BY <1>1, <1>2, <1>3 DEF GoesBy, Proving, Ready
<1>6. QED
  BY <1>4, <1>5 DEF SessionOK

(* A session that is over, or an administrator's, asks for nothing.        *)
LEMMA NothingAsked ==
    ASSUME NEW c, stage'[c] = "admin" \/ (stage'[c] = "none" /\ pc'[c] = "idle")
    PROVE  SessionOK(c)'
BY DEF SessionOK, AsksOwn, GoesBy, Asking, Proving, Ready

(* and a session's end, or a statement of the administrator's.             *)
LEMMA LeavesOK ==
    ASSUME Setup, NEW c \in Clients, Leaves(c) \/ Administers(c)
    PROVE  SessionOK(c)'
<1>1. CASE Leaves(c)
  <2>1. pc'[c] = "idle" /\ stage'[c] = "none"
    BY <1>1 DEF Leaves, StageGoes, Setup, SessionTypes, vars, clientVars
  <2>2. QED
    BY <2>1, NothingAsked
<1>2. CASE Administers(c)
  <2>1. stage'[c] = "admin"
    BY <1>2 DEF Administers, StageGoes, Setup, SessionTypes
  <2>2. QED
    BY <2>1, NothingAsked
<1>3. QED
  BY <1>1, <1>2

(* Whoever makes a step of a call is in one.                               *)
LEMMA BusyWork ==
    ASSUME NEW c, Work(c)
    PROVE  pc[c] # "idle"
<1>1. ASSUME NEW from, NEW to, Goto(c, from, to) PROVE pc[c] = from
  BY <1>1 DEF Goto
<1>2. ASSUME NEW from, NEW a, Ends(c, from, a) PROVE pc[c] = from
  BY <1>2 DEF Ends, Goto
<1>3. ASSUME NEW from, Fails(c, from) PROVE pc[c] = from
  BY <1>2, <1>3 DEF Fails, Returns
<1>4. CASE GetConfig(c) \/ Delete(c) \/ Lock(c) \/ Insert(c) \/ Update(c)
  BY <1>1, <1>4 DEF GetConfig, ReadFile, OpenFails, ReadPart, ReadRest, ReadTorn, ReadBroken,
                    Reindex, Delete, Lock, Insert, Update
<1>5. CASE \/ Select(c) \/ GetPassword(c) \/ NothingChosen(c)
           \/ InsertFails(c) \/ UpdateFails(c) \/ EncryptFails(c)
  BY <1>5 DEF Select, GetPassword, NothingChosen, InsertFails, UpdateFails, EncryptFails
<1>6. CASE PutConfig(c)
  <2>1. CASE CreateFails(c)
    BY <1>3, <2>1 DEF CreateFails
  <2>2. CASE Create(c)
    BY <1>1, <2>2 DEF Create
  <2>3. CASE Encode(c) \/ EncodeFails(c)
    <3>1. pc[c] = "encode"
      BY <1>2, <2>3 DEF Encode, EncodeFails
    <3>2. QED
      BY <3>1
  <2>4. QED
    BY <1>6, <2>1, <2>2, <2>3 DEF PutConfig
<1>7. CASE DecryptPanics(c) \/ UpdatePanics(c) \/ MapRace(c)
  BY <1>7 DEF DecryptPanics, UpdatePanics, OutOfRange, MapRace
<1>8. QED
  BY <1>4, <1>5, <1>6, <1>7 DEF Work, Advance

(* The steps of the call in which it asks.                                 *)
LEMMA AskedSteps ==
    ASSUME NEW c, Work(c), op[c].kind = "login",
           pc[c] \in {"open", "reading", "reindex", "loaded"}
    PROVE  GetConfig(c) \/ GetPassword(c) \/ DecryptPanics(c)
<1>1. ASSUME NEW from, NEW to, Goto(c, from, to) PROVE pc[c] = from
  BY <1>1 DEF Goto
<1>2. ASSUME NEW from, NEW a, Ends(c, from, a) PROVE pc[c] = from
  BY <1>2 DEF Ends, Goto
<1>3. ASSUME NEW from, Fails(c, from) PROVE pc[c] = from
  BY <1>2, <1>3 DEF Fails, Returns
<1>4. ~ (Select(c) \/ Delete(c) \/ NothingChosen(c) \/ Lock(c))
  BY DEF Select, Delete, NothingChosen, Lock
<1>5. ~ (\/ Insert(c) \/ InsertFails(c) \/ Update(c) \/ UpdateFails(c) \/ EncryptFails(c)
         \/ UpdatePanics(c) \/ MapRace(c))
  BY <1>1 DEF Insert, InsertFails, Update, UpdateFails, EncryptFails, UpdatePanics, OutOfRange,
              MapRace
<1>6. ~ PutConfig(c)
  <2>1. ~ CreateFails(c)
    BY <1>3 DEF CreateFails
  <2>2. ~ Create(c)
    BY <1>1 DEF Create
  <2>3. ~ Encode(c) /\ ~ EncodeFails(c)
    <3>1. Encode(c) \/ EncodeFails(c) => pc[c] = "encode"
      BY <1>2 DEF Encode, EncodeFails
    <3>2. QED
      BY <3>1
  <2>4. QED
    BY <2>1, <2>2, <2>3 DEF PutConfig
<1>7. QED
  BY <1>4, <1>5, <1>6 DEF Work, Advance

(* A session that asks is answered for its own name.                       *)
LEMMA AskingStep ==
    ASSUME Setup, NEW c \in Clients, SessionOK(c), Works(c), stage[c] \in Asking
    PROVE  AsksOwn(c)'
<1>1. /\ Work(c) /\ stage'[c] = stage[c] /\ login'[c] = login[c] /\ login[c] \in Logins
      /\ c \notin touched' => c \notin touched /\ file' = file /\ sight'[c] = "clear"
  BY DEF Works, SessionOK, AsksOwn, Asking
<1>2. CallsOK(Asked) /\ FileOK
  BY DEF Setup, StoreOK
<1>3. pc[c] # "idle"
  BY <1>1, <1>2, BusyWork
<1>4. /\ op[c] = [kind |-> "login", name |-> login[c]]
      /\ pc[c] \in {"open", "reading", "reindex", "loaded"}
      /\ pc[c] = "open" => conf[c] = DefaultRows
      /\ c \notin touched => sight[c] = "clear" /\ (pc[c] # "open" => conf[c] = OnFile)
  BY <1>3 DEF SessionOK, AsksOwn, LoginOf
<1>5. c \notin touched' => OnFile' = OnFile
  BY <1>1, OnFileSame
<1>6. ASSUME op'[c] = op[c], pc'[c] \in {"reading", "reindex", "loaded"},
             c \notin touched' => conf'[c] = OnFile
      PROVE  AsksOwn(c)'
  BY <1>1, <1>4, <1>5, <1>6 DEF AsksOwn, Asking, Ready, LoginOf
<1>7. CASE GetConfig(c)
  <2>1. CASE ReadFile(c)
    <3>1. /\ pc[c] = "open" /\ pc'[c] \in {"loaded", "reindex"} /\ op'[c] = op[c]
          /\ conf'[c] = OnFile
      BY <1>2, <1>4, <2>1 DEF ReadFile, Goto, CallsOK, OnFile
    <3>2. QED
      BY <1>6, <3>1
  <2>2. CASE OpenFails(c)
    <3>1. pc'[c] = "loaded" /\ op'[c] = op[c] /\ sight'[c] = "blind"
      BY <1>2, <2>2 DEF OpenFails, Goto, CallsOK, Setup, SightOK
    <3>2. QED
      BY <1>1, <1>6, <3>1
  <2>3. CASE ReadPart(c)
    <3>1. pc'[c] = "reading" /\ op'[c] = op[c] /\ conf'[c] = OnFile
      BY <1>2, <2>3 DEF ReadPart, Goto, CallsOK, OnFile
    <3>2. QED
      BY <1>6, <3>1
  <2>4. CASE ReadRest(c) \/ Reindex(c)
    <3>1. /\ pc[c] \in {"reading", "reindex"} /\ pc'[c] \in {"reindex", "loaded"}
          /\ op'[c] = op[c] /\ conf'[c] = conf[c]
      BY <1>2, <2>4 DEF ReadRest, Reindex, Goto, CallsOK
    <3>2. QED
      BY <1>1, <1>4, <1>6, <3>1
  <2>5. CASE ReadTorn(c) \/ ReadBroken(c)
    <3>1. sight[c] = "torn" /\ pc'[c] = "reindex" /\ op'[c] = op[c]
      BY <1>2, <2>5 DEF ReadTorn, ReadBroken, Goto, CallsOK
    <3>2. QED
      BY <1>1, <1>4, <1>6, <3>1
  <2>6. QED
    BY <1>7, <2>1, <2>2, <2>3, <2>4, <2>5 DEF GetConfig
<1>8. CASE GetPassword(c)
  <2>1. pc[c] = "loaded" /\ pc'[c] = "idle" /\ answer'[c] = Given(login[c], conf[c])
    <3>1. Matching(c) = Fits(login[c], conf[c])
      BY <1>4 DEF Matching, Fits
    <3> DEFINE m == Matching(c)
               r == FirstMatch(c)
    <3>2. r = conf[c][Min(m)]
      BY DEF FirstMatch
    <3> HIDE DEF m, r
    <3>3. /\ m = {} \/ NoText(r) => answer'[c] = Answer("error", 0, <<>>)
          /\ ~ (m = {} \/ NoText(r)) =>
                answer'[c] = Answer("ok", 0, <<[r EXCEPT !.enc = @ - 1]>>)
      BY <1>2, <1>8 DEF GetPassword, Fails, Returns, Ends, CallsOK, m, r
    <3>4. pc[c] = "loaded" /\ pc'[c] = "idle"
      BY <1>2, <1>8 DEF GetPassword, Fails, Returns, Ends, Goto, CallsOK
    <3>5. QED
      BY <3>1, <3>2, <3>3, <3>4 DEF Given, m
  <2>2. conf[c] \in Seq(Owned)
    BY <1>2 DEF CallsOK
  <2>3. mixed' = mixed
    BY <1>8 DEF GetPassword, Fails, Returns, Ends
  <2>4. answer'[c].status = "ok" =>
           \E r : answer'[c] = Answer("ok", 0, <<r>>) /\ Fitting(login[c], r, mixed')
    BY <2>1, <2>2, <2>3, GivenFits
  <2>5. c \notin touched' => answer'[c] = Given(login[c], OnFile')
    BY <1>1, <1>4, <1>5, <2>1
  <2>6. QED
    BY <1>1, <2>1, <2>4, <2>5 DEF AsksOwn, Asking, Ready
<1>9. CASE DecryptPanics(c)
  <2>1. /\ pc[c] = "loaded" /\ pc'[c] = pc[c] /\ op'[c] = op[c] /\ conf'[c] = conf[c]
    BY <1>9 DEF DecryptPanics, clientVars
  <2>2. QED
    BY <1>1, <1>4, <1>6, <2>1
<1>10. op[c].kind = "login"
  BY <1>4
<1>11. QED
  BY <1>1, <1>4, <1>7, <1>8, <1>9, <1>10, AskedSteps

(* A step of a call, its own.                                              *)
LEMMA WorksOK ==
    ASSUME Setup, NEW c \in Clients, SessionOK(c), Works(c)
    PROVE  SessionOK(c)'
<1>1. /\ Work(c) /\ stage'[c] = stage[c] /\ login'[c] = login[c]
      /\ proven'[c] = proven[c] /\ target'[c] = target[c]
      /\ c \notin touched' /\ stage[c] \notin {"none", "admin"} => c \notin touched /\ file' = file
  BY DEF Works
<1>2. pc[c] # "idle"
  BY <1>1, BusyWork
<1>3. stage[c] \in {"admin"} \cup Asking
  BY <1>2 DEF SessionOK, AsksOwn, Setup, SessionTypes, Stages, Proving, Asking, Ready
<1>4. CASE stage[c] = "admin"
  BY <1>1, <1>4, NothingAsked
<1>5. CASE stage[c] \in Asking
  <2>1. AsksOwn(c)'
    BY <1>5, AskingStep
  <2>2. c \notin touched' => c \notin touched /\ OnFile' = OnFile
    BY <1>1, <1>5, OnFileSame DEF Asking
  <2>3. GoesBy(c)
    BY DEF SessionOK
  <2> DEFINE U(s) == getTargetInfo(s).user
             A(s) == addPort(getTargetInfo(s).server)
             P(s) == getTargetInfo(s).pass
  <2>4. stage'[c] \in Proving =>
          /\ target'[c] = [user |-> U(login'[c]), addr |-> A(login'[c]),
                           account |-> target'[c].account]
          /\ c \notin touched' => Given(login'[c], OnFile') = Answer("ok", 0, <<proven'[c]>>)
    BY <1>1, <2>2, <2>3 DEF GoesBy
  <2>5. stage'[c] \in {"lookup", "fetching"} => P(login'[c]) = <<>>
    BY <1>1, <2>3 DEF GoesBy
  <2>6. stage'[c] \notin Ready
    BY <1>1, <1>5 DEF Asking, Ready
  <2>7. GoesBy(c)'
    BY <2>4, <2>5, <2>6 DEF GoesBy
  <2>8. QED
    BY <2>1, <2>7 DEF SessionOK
<1>6. QED
  BY <1>3, <1>4, <1>5

(* A worker's step.                                                        *)
LEMMA WorkerStep ==
    ASSUME Setup, NEW c \in Clients, SessionOK(c), sessionWorker(c)
    PROVE  SessionOK(c)'
BY HandshakeOK, AuthenticatedOK, LookupOK, FetchedOK, ConnectsOK, LeavesOK, WorksOK
   DEF sessionWorker

(* The invariant of the sessions.                                          *)
AllOK == SessionTypes /\ \A c \in Clients : SessionOK(c)

(* Every step keeps what all sessions know ...                             *)
LEMMA AllStep ==
    StoreOK(Asked) /\ SightOK /\ NamesOK /\ AllOK /\ [SessionNext]_allVars => AllOK'
<1> SUFFICES ASSUME StoreOK(Asked), SightOK, NamesOK, AllOK, [SessionNext]_allVars PROVE AllOK'
  OBVIOUS
<1>0. Setup
  BY DEF Setup, AllOK
<1>1. ASSUME NEW c \in Clients, sessionWorker(c) PROVE AllOK'
  <2>1. SessionTypes'
    BY <1>1, TypesStep DEF AllOK
  <2>2. ASSUME NEW d \in Clients \ {c} PROVE SessionOK(d)'
    BY <1>0, <1>1, OthersUndisturbed, UndisturbedOK DEF AllOK
  <2>3. SessionOK(c)'
    BY <1>0, <1>1, WorkerStep DEF AllOK
  <2>4. QED
    BY <2>1, <2>2, <2>3 DEF AllOK
<1>2. CASE Reboot
  <2>1. SessionTypes'
    BY <1>2 DEF Reboot, SessionTypes, Stages
  <2>2. ASSUME NEW c \in Clients PROVE stage'[c] = "none" /\ pc'[c] = "idle"
    BY <1>2 DEF Reboot, Restart
  <2>3. QED
    BY <2>1, <2>2, NothingAsked DEF AllOK
<1>3. CASE UNCHANGED allVars
  <2>1. SessionTypes'
    BY <1>3 DEF allVars, sessionVars, SessionTypes, AllOK
  <2>2. ASSUME NEW c \in Clients PROVE Undisturbed(c)
    BY <1>3 DEF allVars, sessionVars, vars, clientVars, readVars, Undisturbed
  <2>3. QED
    BY <2>1, <2>2, UndisturbedOK DEF AllOK
<1>4. QED
  BY <1>1, <1>2, <1>3 DEF SessionNext

(* ... and they start with it.                                             *)
LEMMA AllStart == SessionInit => AllOK
<1> SUFFICES ASSUME SessionInit PROVE AllOK
  OBVIOUS
<1>1. SessionTypes
  BY DEF SessionInit, SessionTypes, Stages
<1>2. ASSUME NEW c \in Clients PROVE SessionOK(c)
  <2>1. stage[c] \in {"none", "admin"} /\ pc[c] = "idle"
    BY DEF SessionInit, Idle
  <2>2. QED
    BY <2>1 DEF SessionOK, AsksOwn, GoesBy, Asking, Proving, Ready
<1>3. QED
  BY <1>1, <1>2 DEF AllOK

(* What a session knows is where its login says it goes.                   *)
LEMMA GoWhereTold ==
    StoreOK(Asked) /\ AllOK => SessionsGoWhereTheirLoginSays
<1> SUFFICES ASSUME StoreOK(Asked), AllOK, NEW c \in Clients, stage[c] \in {"connect", "relay"},
                    NEW r \in Readings[login[c]]
             PROVE  /\ target[c].user = <<r.user>> /\ target[c].addr = Address(r)
                    /\ r.pass # None => target[c].account = <<r.pass>>
                    /\ r.pass = None =>
                         /\ c \notin touched => target[c].account = proven[c]
                         /\ target[c].account # None =>
                               /\ login[c] \in Matches[target[c].account.user]
                               /\ ~ mixed => MayHave(target[c].account)
  BY DEF SessionsGoWhereTheirLoginSays
<1>1. login[c] \in Logins /\ GoesBy(c) /\ stage[c] \in Ready /\ stage[c] \in Proving
  BY DEF AllOK, SessionOK, AsksOwn, Ready, Proving
<1>2. r \in Parts /\ Name(r) = login[c]
  BY <1>1 DEF Readings
<1> DEFINE info == getTargetInfo(login[c])
<1>3. /\ info.user = <<r.user>> /\ addPort(info.server) = Address(r)
      /\ info.pass = IF r.pass = None THEN <<>> ELSE <<r.pass>>
  BY <1>2, TakenApart
<1>4. target[c] = [user |-> info.user, addr |-> addPort(info.server), account |-> target[c].account]
  BY <1>1 DEF GoesBy
<1>5. info.pass # <<>> => target[c].account = info.pass
  BY <1>1 DEF GoesBy
<1>6. info.pass = <<>> =>
          /\ c \notin touched => target[c].account = proven[c]
          /\ target[c].account # None => Fitting(login[c], target[c].account, mixed)
  BY <1>1 DEF GoesBy
<1> HIDE DEF info
<1>7. target[c].user = info.user /\ target[c].addr = addPort(info.server)
  BY <1>4
<1>8. QED
  BY <1>3, <1>5, <1>6, <1>7 DEF Fitting

(* A session is connected to the user and the address its login names, and *)
(* to the account it proved to be unless the file was written meanwhile or *)
(* could not be opened, although the table is read twice, under an index   *)
(* others rebuild (proxysrv.go:88-118, 138-174).                           *)
THEOREM SessionsConnectWell == SessionSpec => []SessionsGoWhereTheirLoginSays
<1> DEFINE Inv == StoreOK(Asked) /\ SightOK /\ NamesOK /\ AllOK
<1>1. SessionInit => Inv
  BY SessionsStart, AllStart
<1>2. Inv /\ [SessionNext]_allVars => Inv'
  BY SessionsMove, StoreStep, SightStep, AskedAskable, AllStep DEF StoreOK
<1>3. Inv => SessionsGoWhereTheirLoginSays
  BY GoWhereTold
<1> HIDE DEF Inv
<1>4. QED
  BY <1>1, <1>2, <1>3, PTL DEF SessionSpec
=============================================================================
