--------------------------- MODULE SessionProofs ----------------------------
(***************************************************************************)
(* Theorems about Session, for every set of calls, tabs and tokens.        *)
(***************************************************************************)
EXTENDS Session, Sums

Refreshers(t) == {c \in Call : call[c].pc \in RefreshPC /\ TabOf[c] = t}

\* What a call carries besides its label is of no matter here.
Shape == DOMAIN call = Call /\ \A c \in Call : "pc" \in DOMAIN call[c]

\* The step of one call to a label.
Moved(c, label) ==
    /\ DOMAIN call' = Call
    /\ \A b \in Call \ {c} : call'[b] = call[b]
    /\ "pc" \in DOMAIN call'[c] /\ call'[c].pc = label

FlagInv ==
    /\ Shape
    /\ refreshing \subseteq Tab
    /\ \A t \in Tab : IF t \in refreshing THEN \E c \in Call : Refreshers(t) = {c}
                      ELSE Refreshers(t) = {}

\* The flag isRefreshing of a tab is set exactly while one of its calls
\* refreshes, however the calls of its tabs interleave, are refused, renewed
\* or lost.
THEOREM OneRefresh == Spec => []OneRefreshPerTab
<1>1. Init => FlagInv
  <2> SUFFICES ASSUME Init PROVE FlagInv
    OBVIOUS
  <2>1. \A c \in Call : call[c] = Idle
    BY DEF Init
  <2>2. "idle" \notin RefreshPC
    BY DEF RefreshPC
  <2>3. Shape
    BY <2>1 DEF Init, Shape, Idle
  <2>5. \A t \in Tab : Refreshers(t) = {}
    BY <2>1, <2>2 DEF Refreshers, Idle
  <2> QED
    BY <2>3, <2>5 DEF FlagInv, Init
<1>2. FlagInv /\ [Next]_vars => FlagInv'
  <2> SUFFICES ASSUME FlagInv, [Next]_vars PROVE FlagInv'
    OBVIOUS
  <2>1. /\ refreshing \subseteq Tab
        /\ \A t \in Tab : IF t \in refreshing THEN \E c \in Call : Refreshers(t) = {c}
                          ELSE Refreshers(t) = {}
        /\ \A t : Refreshers(t)' = {c \in Call : call'[c].pc \in RefreshPC /\ TabOf[c] = t}
        /\ TabOf \in [Call -> Tab]
    BY TabAssumption DEF FlagInv, Refreshers
  <2>2. DOMAIN call = Call /\ \A c \in Call : "pc" \in DOMAIN call[c]
    BY DEF FlagInv, Shape
  \* A step of one call: it stays inside or outside of the refresh, enters it
  \* and sets the flag, or leaves it and clears the flag.
  <2>3. ASSUME NEW c \in Call, NEW label, Moved(c, label),
               \/ (label \in RefreshPC <=> call[c].pc \in RefreshPC) /\ refreshing' = refreshing
               \/ /\ label \in RefreshPC /\ TabOf[c] \notin refreshing
                  /\ refreshing' = refreshing \union {TabOf[c]}
               \/ /\ label \notin RefreshPC /\ call[c].pc \in RefreshPC
                  /\ refreshing' = refreshing \ {TabOf[c]}
        PROVE  FlagInv'
    <3>1. \A b \in Call : call'[b].pc = IF b = c THEN label ELSE call[b].pc
      BY <2>3 DEF Moved
    <3>0. Shape'
      BY <2>2, <2>3 DEF Shape, Moved
    <3>2. refreshing' \subseteq Tab
      BY <2>1, <2>3
    <3>3. ASSUME NEW t \in Tab, t # TabOf[c]
          PROVE  Refreshers(t)' = Refreshers(t) /\ (t \in refreshing' <=> t \in refreshing)
      BY <2>1, <2>3, <3>1, <3>3 DEF Refreshers
    <3>4. Refreshers(TabOf[c])' = IF label \in RefreshPC THEN Refreshers(TabOf[c]) \union {c}
                                  ELSE Refreshers(TabOf[c]) \ {c}
      BY <2>1, <3>1 DEF Refreshers
    <3>5. call[c].pc \in RefreshPC <=> c \in Refreshers(TabOf[c])
      BY DEF Refreshers
    <3>6. IF TabOf[c] \in refreshing' THEN \E b \in Call : Refreshers(TabOf[c])' = {b}
          ELSE Refreshers(TabOf[c])' = {}
      <4>1. IF TabOf[c] \in refreshing THEN \E b \in Call : Refreshers(TabOf[c]) = {b}
            ELSE Refreshers(TabOf[c]) = {}
        BY <2>1
      <4> QED
        BY <2>3, <3>4, <3>5, <4>1
    <3> QED
      BY <2>1, <2>3, <3>0, <3>2, <3>3, <3>6 DEF FlagInv
  <2>4. ASSUME call' = call, refreshing' = refreshing PROVE FlagInv'
    BY <2>4 DEF FlagInv, Shape, Refreshers
  \* The forms the rows of calls take.
  <2>6. ASSUME NEW c \in Call, End(c) \/ Deny(c) \/ Resend(c) \/ \E kind \in Kind : Send(c, kind),
               \/ call[c].pc \notin RefreshPC /\ refreshing' = refreshing
               \/ call[c].pc \in RefreshPC /\ refreshing' = refreshing \ {TabOf[c]}
        PROVE  FlagInv'
    <3>1. \E label \in {"idle", "denied", "sent"} : Moved(c, label)
      <4>1. ASSUME NEW row, NEW label, call' = [call EXCEPT ![c] = row],
                   "pc" \in DOMAIN row, row.pc = label
            PROVE  Moved(c, label)
        BY <2>2, <4>1 DEF Moved
      <4>2. CASE End(c)
        <5>1. "pc" \in DOMAIN Idle /\ Idle.pc = "idle"
          BY DEF Idle
        <5>2. call' = [call EXCEPT ![c] = Idle]
          BY <4>2 DEF End
        <5> QED
          BY <4>1, <5>1, <5>2
      <4>3. CASE Deny(c)
        <5> DEFINE row == [Idle EXCEPT !.pc = "denied", !.kind = call[c].kind]
        <5>1. "pc" \in DOMAIN row /\ row.pc = "denied"
          BY DEF Idle
        <5>2. call' = [call EXCEPT ![c] = row]
          BY <4>3 DEF Deny
        <5> HIDE DEF row
        <5> QED
          BY <4>1, <5>1, <5>2
      <4>4. CASE Resend(c)
        <5> DEFINE row == [Idle EXCEPT !.pc = "sent", !.kind = call[c].kind, !.bearer = TRUE]
        <5>1. "pc" \in DOMAIN row /\ row.pc = "sent"
          BY DEF Idle
        <5>2. call' = [call EXCEPT ![c] = row]
          BY <4>4 DEF Resend
        <5> HIDE DEF row
        <5> QED
          BY <4>1, <5>1, <5>2
      <4>5. ASSUME NEW kind \in Kind, Send(c, kind)
            PROVE  Moved(c, "sent")
        <5> DEFINE row == [Idle EXCEPT !.pc = "sent", !.kind = kind,
                                       !.bearer = TabOf[c] \in access]
        <5>1. "pc" \in DOMAIN row /\ row.pc = "sent"
          BY DEF Idle
        <5>2. call' = [call EXCEPT ![c] = row]
          BY <4>5 DEF Send
        <5> HIDE DEF row
        <5> QED
          BY <4>1, <5>1, <5>2
      <4> QED
        BY <2>6, <4>2, <4>3, <4>4, <4>5
    <3>2. {"idle", "denied", "sent"} \intersect RefreshPC = {}
      BY DEF RefreshPC
    <3> QED
      BY <2>3, <2>6, <3>1, <3>2
  <2>7. ASSUME NEW c \in Call, NEW label, NEW j, NEW e, NEW f,
               \/ call' = [call EXCEPT ![c].pc = label]
               \/ call' = [call EXCEPT ![c].pc = label, ![c].failed = f, ![c].epoch = e]
               \/ call' = [call EXCEPT ![c].pc = label, ![c].failed = f]
               \/ call' = [call EXCEPT ![c].pc = label, ![c].epoch = e]
               \/ call' = [call EXCEPT ![c].pc = label, ![c].jti = j],
               \/ (label \in RefreshPC <=> call[c].pc \in RefreshPC) /\ refreshing' = refreshing
               \/ /\ label \in RefreshPC /\ TabOf[c] \notin refreshing
                  /\ refreshing' = refreshing \union {TabOf[c]}
        PROVE  FlagInv'
    <3>1. Moved(c, label)
      <4>1. CASE call' = [call EXCEPT ![c].pc = label]
        BY <2>2, <4>1 DEF Moved
      <4>2. CASE call' = [call EXCEPT ![c].pc = label, ![c].failed = f, ![c].epoch = e]
        BY <2>2, <4>2 DEF Moved
      <4>3. CASE call' = [call EXCEPT ![c].pc = label, ![c].failed = f]
        BY <2>2, <4>3 DEF Moved
      <4>4. CASE call' = [call EXCEPT ![c].pc = label, ![c].epoch = e]
        BY <2>2, <4>4 DEF Moved
      <4>5. CASE call' = [call EXCEPT ![c].pc = label, ![c].jti = j]
        BY <2>2, <4>5 DEF Moved
      <4> QED
        BY <2>7, <4>1, <4>2, <4>3, <4>4, <4>5
    <3> QED
      BY <2>3, <2>7, <3>1
  <2>8. CASE UNCHANGED vars
    BY <2>4, <2>8 DEF vars, browserVars
  <2>9. ASSUME NEW c \in Call, NEW kind \in Kind, Send(c, kind) PROVE FlagInv'
    <3>1. call[c].pc \notin RefreshPC /\ refreshing' = refreshing
      BY <2>9 DEF Send, Idle, RefreshPC, browserVars
    <3> QED
      BY <2>6, <2>9, <3>1
  <2>10. ASSUME NEW c \in Call, Denied(c) PROVE FlagInv'
    <3>1. call[c].pc = "denied" /\ "denied" \notin RefreshPC
          /\ "refresh" \in RefreshPC
      BY <2>10 DEF Denied, RefreshPC
    <3>2. CASE TabOf[c] \in refreshing
      BY <2>6, <2>10, <3>1, <3>2 DEF Denied
    <3>3. CASE TabOf[c] \notin refreshing
      <4>1. /\ refreshing' = refreshing \union {TabOf[c]}
            /\ call' = [call EXCEPT ![c].pc = "refresh", ![c].jti = jar]
        BY <2>10, <3>3 DEF Denied
      <4> QED
        BY <2>7, <3>1, <3>3, <4>1
    <3> QED
      BY <3>2, <3>3
  <2>11. ASSUME NEW c \in Call, Renewed(c) \/ Refused(c) PROVE FlagInv'
    <3>1. /\ call[c].pc \in RefreshPC /\ refreshing' = refreshing \ {TabOf[c]}
          /\ End(c) \/ Resend(c)
      BY <2>11 DEF Renewed, Refused, RefreshPC
    <3> QED
      BY <2>6, <3>1
  <2>12. ASSUME NEW c \in Call, Welcome(c) \/ Serve(c) \/ LoginLocked(c) \/ LoginWrong(c)
         PROVE  FlagInv'
    <3>1. /\ call[c].pc \notin RefreshPC /\ refreshing' = refreshing
          /\ End(c) \/ Deny(c)
      BY <2>12 DEF Welcome, Serve, LoginLocked, LoginWrong, RefreshPC, browserVars
    <3> QED
      BY <2>6, <3>1
  <2>13. ASSUME NEW c \in Call, LoginRead(c) \/ LoginRight(c) PROVE FlagInv'
    <3>1. /\ call[c].pc \in {"sent", "check"} /\ refreshing' = refreshing
          /\ \/ call' = [call EXCEPT ![c].pc = "check", ![c].failed = user.failed,
                                     ![c].epoch = user.password]
             \/ call' = [call EXCEPT ![c].pc = "issue", ![c].failed = 0]
      BY <2>13 DEF LoginRead, LoginRight, browserVars
    <3>2. {"sent", "check", "issue"} \intersect RefreshPC = {}
      BY DEF RefreshPC
    <3>3. CASE call' = [call EXCEPT ![c].pc = "check", ![c].failed = user.failed,
                                    ![c].epoch = user.password]
      BY <2>7, <3>1, <3>2, <3>3
    <3>4. CASE call' = [call EXCEPT ![c].pc = "issue", ![c].failed = 0]
      BY <2>7, <3>1, <3>2, <3>4
    <3> QED
      BY <3>1, <3>3, <3>4
  <2>14. ASSUME NEW c \in Call, LoginIssue(c) \/ RefreshIssue(c) PROVE FlagInv'
    <3>1. /\ refreshing' = refreshing
          /\ \/ /\ call[c].pc = "issue"
                /\ call' = [call EXCEPT ![c].pc = "welcome", ![c].jti = NewJti]
             \/ /\ call[c].pc = "reissue"
                /\ call' = [call EXCEPT ![c].pc = "renewed", ![c].jti = NewJti]
      BY <2>14 DEF LoginIssue, RefreshIssue, IssueRefreshToken, browserVars
    <3>2. /\ {"reissue", "renewed"} \subseteq RefreshPC
          /\ {"issue", "welcome"} \intersect RefreshPC = {}
      BY DEF RefreshPC
    <3>3. CASE call' = [call EXCEPT ![c].pc = "welcome", ![c].jti = NewJti] /\ call[c].pc = "issue"
      BY <2>7, <3>1, <3>2, <3>3
    <3>4. CASE call' = [call EXCEPT ![c].pc = "renewed", ![c].jti = NewJti]
               /\ call[c].pc = "reissue"
      BY <2>7, <3>1, <3>2, <3>4
    <3> QED
      BY <3>1, <3>3, <3>4
  <2>15. ASSUME NEW c \in Call, RefreshRead(c) \/ RefreshRevoke(c) PROVE FlagInv'
    <3>1. refreshing' = refreshing /\ call[c].pc \in RefreshPC
      BY <2>15 DEF RefreshRead, RefreshRevoke, browserVars, RefreshPC
    <3>2. "revoke" \in RefreshPC /\ "refused" \in RefreshPC /\ "reissue" \in RefreshPC
      BY DEF RefreshPC
    <3>3. ASSUME NEW e, call' = [call EXCEPT ![c].pc = "revoke", ![c].epoch = e] PROVE FlagInv'
      BY <2>7, <3>1, <3>2, <3>3
    <3>4. CASE call' = [call EXCEPT ![c].pc = "refused"]
      BY <2>7, <3>1, <3>2, <3>4
    <3>5. CASE call' = [call EXCEPT ![c].pc = "reissue"]
      BY <2>7, <3>1, <3>2, <3>5
    <3> QED
      BY <2>15, <3>3, <3>4, <3>5 DEF RefreshRead, RefreshRevoke, Goto
  <2>16. ASSUME NEW c \in Call, Lose(c) PROVE FlagInv'
    BY <2>6, <2>16 DEF Lose
  <2>17. ASSUME \/ \E x \in Resetter : ResetRead(x) \/ ResetCommit(x)
                \/ \E t \in Tab : Expire(t)
                \/ Unlock
         PROVE  FlagInv'
    BY <2>4, <2>17 DEF ResetRead, ResetCommit, Expire, Unlock, browserVars
  <2> QED
    BY <2>8, <2>9, <2>10, <2>11, <2>12, <2>13, <2>14, <2>15, <2>16, <2>17 DEF Next, CallStep
<1>3. FlagInv => OneRefreshPerTab
  <2> SUFFICES ASSUME FlagInv, NEW t \in Tab
               PROVE  Cardinality(Refreshers(t)) = IF t \in refreshing THEN 1 ELSE 0
    BY DEF OneRefreshPerTab, Refreshers, Holding
  <2>1. CASE t \in refreshing
    BY <2>1, FS_Singleton DEF FlagInv
  <2>2. CASE t \notin refreshing
    BY <2>2, FS_EmptySet DEF FlagInv
  <2> QED
    BY <2>1, <2>2
<1> QED
  BY <1>1, <1>2, <1>3, PTL DEF Spec

----------------------------------------------------------------------------
Row == [pc : PC, kind : Kind, bearer : BOOLEAN, jti : Jti \union {None}, epoch : Nat,
        failed : Nat]

\* The types are an invariant: the id that is drawn for a token is a new one.
LEMMA SessionTypes == Spec => []TypeOK
<1>0. Idle \in Row /\ {"denied", "sent", "refresh", "check", "issue", "welcome"} \subseteq PC
      /\ {"revoke", "reissue", "renewed", "refused"} \subseteq PC
  BY DEF Idle, Row, PC, RefreshPC, Kind
<1>1. Init => TypeOK
  <2> SUFFICES ASSUME Init PROVE TypeOK
    OBVIOUS
  <2>1. user \in [failed : Nat, locked : BOOLEAN, password : Nat]
    BY DEF Init
  <2>2. call \in [Call -> Row]
    BY <1>0 DEF Init
  <2>3. resetOpen \in BOOLEAN /\ straddled \in BOOLEAN /\ lost \in BOOLEAN
    BY BoundAssumption DEF Init
  <2>4. /\ token \in [Jti -> {"free", "live", "revoked"}]
        /\ resetter \in [Resetter -> {"idle", "commit"}]
        /\ epoch \in [Jti -> Nat] /\ heirs \in [Jti -> Nat] /\ raced \subseteq Jti
    BY DEF Init
  <2>5. /\ jar \in Jti \union {None} /\ access \subseteq Tab /\ refreshing \subseteq Tab
        /\ calls \in Nat /\ mistakes \in Nat /\ mishaps \in Nat
    BY DEF Init
  <2> QED
    BY <2>1, <2>2, <2>3, <2>4, <2>5 DEF TypeOK, Row
<1>2. TypeOK /\ [Next]_vars => TypeOK'
  <2> SUFFICES ASSUME TypeOK, [Next]_vars PROVE TypeOK'
    OBVIOUS
  <2>1. /\ call \in [Call -> Row] /\ calls \in Nat /\ mistakes \in Nat /\ mishaps \in Nat
        /\ user \in [failed : Nat, locked : BOOLEAN, password : Nat]
        /\ token \in [Jti -> {"free", "live", "revoked"}]
        /\ resetter \in [Resetter -> {"idle", "commit"}]
        /\ jar \in Jti \union {None} /\ access \subseteq Tab /\ refreshing \subseteq Tab
        /\ epoch \in [Jti -> Nat] /\ heirs \in [Jti -> Nat] /\ raced \subseteq Jti
        /\ lost \in BOOLEAN /\ resetOpen \in BOOLEAN /\ straddled \in BOOLEAN
        /\ \A c \in Call : TabOf[c] \in Tab
    BY TabAssumption DEF TypeOK, Row
  \* The forms the row of a call takes.
  <2>2. ASSUME NEW c \in Call, End(c) \/ Deny(c) \/ Resend(c) PROVE call' \in [Call -> Row]
    <3>1. PICK row : row \in Row /\ call' = [call EXCEPT ![c] = row]
      <4>1. call[c].kind \in Kind
        BY <2>1 DEF Row
      <4>2. /\ [Idle EXCEPT !.pc = "denied", !.kind = call[c].kind] \in Row
            /\ [Idle EXCEPT !.pc = "sent", !.kind = call[c].kind, !.bearer = TRUE] \in Row
        BY <1>0, <4>1 DEF Row
      <4> QED
        BY <1>0, <2>2, <4>2 DEF End, Deny, Resend
    <3> QED
      BY <2>1, <3>1
  <2>3. ASSUME NEW c \in Call, NEW label \in PC,
               \E j \in Jti \union {None}, e \in Nat, f \in Nat :
                   \/ call' = [call EXCEPT ![c].pc = label]
                   \/ call' = [call EXCEPT ![c].pc = label, ![c].failed = f, ![c].epoch = e]
                   \/ call' = [call EXCEPT ![c].pc = label, ![c].failed = f]
                   \/ call' = [call EXCEPT ![c].pc = label, ![c].epoch = e]
                   \/ call' = [call EXCEPT ![c].pc = label, ![c].jti = j]
        PROVE  call' \in [Call -> Row]
    <3>1. PICK j \in Jti \union {None}, e \in Nat, f \in Nat :
                   \/ call' = [call EXCEPT ![c].pc = label]
                   \/ call' = [call EXCEPT ![c].pc = label, ![c].failed = f, ![c].epoch = e]
                   \/ call' = [call EXCEPT ![c].pc = label, ![c].failed = f]
                   \/ call' = [call EXCEPT ![c].pc = label, ![c].epoch = e]
                   \/ call' = [call EXCEPT ![c].pc = label, ![c].jti = j]
      BY <2>3
    <3>0. call[c] \in Row
      BY <2>1
    <3>2. CASE call' = [call EXCEPT ![c].pc = label]
      BY <2>1, <3>2 DEF Row
    <3>3. CASE call' = [call EXCEPT ![c].pc = label, ![c].failed = f, ![c].epoch = e]
      <4>1. [call EXCEPT ![c].pc = label, ![c].failed = f, ![c].epoch = e]
                = [call EXCEPT ![c] = [call[c] EXCEPT !.pc = label, !.failed = f, !.epoch = e]]
        BY <2>1
      <4>2. [call[c] EXCEPT !.pc = label, !.failed = f, !.epoch = e] \in Row
        BY <3>0 DEF Row
      <4> QED
        BY <2>1, <3>3, <4>1, <4>2
    <3>4. CASE call' = [call EXCEPT ![c].pc = label, ![c].failed = f]
      <4>1. [call EXCEPT ![c].pc = label, ![c].failed = f]
                = [call EXCEPT ![c] = [call[c] EXCEPT !.pc = label, !.failed = f]]
        BY <2>1
      <4>2. [call[c] EXCEPT !.pc = label, !.failed = f] \in Row
        BY <3>0 DEF Row
      <4> QED
        BY <2>1, <3>4, <4>1, <4>2
    <3>5. CASE call' = [call EXCEPT ![c].pc = label, ![c].epoch = e]
      <4>1. [call EXCEPT ![c].pc = label, ![c].epoch = e]
                = [call EXCEPT ![c] = [call[c] EXCEPT !.pc = label, !.epoch = e]]
        BY <2>1
      <4>2. [call[c] EXCEPT !.pc = label, !.epoch = e] \in Row
        BY <3>0 DEF Row
      <4> QED
        BY <2>1, <3>5, <4>1, <4>2
    <3>6. CASE call' = [call EXCEPT ![c].pc = label, ![c].jti = j]
      <4>1. [call EXCEPT ![c].pc = label, ![c].jti = j]
                = [call EXCEPT ![c] = [call[c] EXCEPT !.pc = label, !.jti = j]]
        BY <2>1
      <4>2. [call[c] EXCEPT !.pc = label, !.jti = j] \in Row
        BY <3>0 DEF Row
      <4> QED
        BY <2>1, <3>6, <4>1, <4>2
    <3> QED
      BY <3>1, <3>2, <3>3, <3>4, <3>5, <3>6
  <2>4. ASSUME NEW c \in Call, NEW kind \in Kind, Send(c, kind) PROVE TypeOK'
    <3>1. [Idle EXCEPT !.pc = "sent", !.kind = kind, !.bearer = TabOf[c] \in access] \in Row
      <4>1. \A b \in BOOLEAN : [Idle EXCEPT !.pc = "sent", !.kind = kind, !.bearer = b] \in Row
        BY <1>0 DEF Row
      <4>2. (TabOf[c] \in access) \in BOOLEAN
        OBVIOUS
      <4> QED
        BY <4>1, <4>2
    <3>2. call' \in [Call -> Row]
      BY <2>1, <2>4, <3>1 DEF Send
    <3>3. calls' \in Nat /\ mistakes' \in Nat
      BY <2>1, <2>4 DEF Send
    <3> QED
      BY <2>1, <2>4, <3>2, <3>3 DEF Send, TypeOK, Row, serverVars, browserVars
  <2>5. ASSUME NEW c \in Call, Denied(c) PROVE TypeOK'
    <3>1. call' \in [Call -> Row]
      BY <1>0, <2>1, <2>2, <2>3, <2>5 DEF Denied
    <3>2. refreshing' \subseteq Tab /\ raced' \subseteq Jti
      BY <2>1, <2>5 DEF Denied
    <3> QED
      BY <2>1, <2>5, <3>1, <3>2 DEF Denied, TypeOK, Row, counters
  <2>6. ASSUME NEW c \in Call, Renewed(c) \/ Refused(c) \/ Welcome(c) PROVE TypeOK'
    <3>1. call' \in [Call -> Row]
      BY <2>2, <2>6 DEF Renewed, Refused, Welcome
    <3>2. call[c].jti \in Jti \union {None}
      BY <2>1 DEF Row
    <3>3. jar' \in Jti \union {None} /\ access' \subseteq Tab /\ refreshing' \subseteq Tab
      BY <2>1, <2>6, <3>2 DEF Renewed, Refused, Welcome
    <3> QED
      BY <2>1, <2>6, <3>1, <3>3 DEF Renewed, Refused, Welcome, TypeOK, Row, serverVars, counters
  <2>7. ASSUME NEW c \in Call,
               Serve(c) \/ LoginLocked(c) \/ LoginRead(c) \/ LoginWrong(c) \/ LoginRight(c)
        PROVE  TypeOK'
    <3>2. user.failed \in Nat /\ user.password \in Nat /\ call[c].failed \in Nat
      BY <2>1 DEF Row
    <3>1. call' \in [Call -> Row]
      <4>1. \/ End(c) \/ Deny(c)
            \/ \E label \in PC, e \in Nat, f \in Nat :
                   \/ call' = [call EXCEPT ![c].pc = label, ![c].failed = f, ![c].epoch = e]
                   \/ call' = [call EXCEPT ![c].pc = label, ![c].failed = f]
        BY <1>0, <2>7, <3>2 DEF Serve, LoginLocked, LoginRead, LoginWrong, LoginRight
      <4>2. CASE End(c) \/ Deny(c)
        BY <2>2, <4>2
      <4>3. CASE ~(End(c) \/ Deny(c))
        <5>1. PICK label \in PC, e \in Nat, f \in Nat :
                   \/ call' = [call EXCEPT ![c].pc = label, ![c].failed = f, ![c].epoch = e]
                   \/ call' = [call EXCEPT ![c].pc = label, ![c].failed = f]
          BY <4>1, <4>3
        <5>2. \E j \in Jti \union {None}, d \in Nat, g \in Nat :
                   \/ call' = [call EXCEPT ![c].pc = label]
                   \/ call' = [call EXCEPT ![c].pc = label, ![c].failed = g, ![c].epoch = d]
                   \/ call' = [call EXCEPT ![c].pc = label, ![c].failed = g]
                   \/ call' = [call EXCEPT ![c].pc = label, ![c].epoch = d]
                   \/ call' = [call EXCEPT ![c].pc = label, ![c].jti = j]
          BY <5>1
        <5> QED
          BY <2>3, <5>2
      <4> QED
        BY <4>2, <4>3
    <3>3. user' \in [failed : Nat, locked : BOOLEAN, password : Nat]
      <4>1. CASE Serve(c) \/ LoginLocked(c) \/ LoginRead(c)
        BY <2>1, <4>1 DEF Serve, LoginLocked, LoginRead, serverVars
      <4>2. CASE LoginWrong(c)
        <5>1. PICK b \in BOOLEAN : b = (user.locked \/ call[c].failed + 1 >= MaxFailed)
          OBVIOUS
        <5>2. user' = [user EXCEPT !.failed = call[c].failed + 1, !.locked = b]
          BY <4>2, <5>1 DEF LoginWrong
        <5>3. \A u \in [failed : Nat, locked : BOOLEAN, password : Nat], f \in Nat :
                  [u EXCEPT !.failed = f, !.locked = b]
                      \in [failed : Nat, locked : BOOLEAN, password : Nat]
          OBVIOUS
        <5>4. call[c].failed + 1 \in Nat
          BY <3>2
        <5> QED
          BY <2>1, <5>2, <5>3, <5>4
      <4>3. CASE LoginRight(c)
        BY <2>1, <4>3 DEF LoginRight
      <4> QED
        BY <2>7, <4>1, <4>2, <4>3
    <3> QED
      BY <2>1, <2>7, <3>1, <3>3
         DEF Serve, LoginLocked, LoginRead, LoginWrong, LoginRight, TypeOK, Row,
             serverVars, browserVars, counters
  <2>8. ASSUME NEW c \in Call, LoginIssue(c) \/ RefreshIssue(c) PROVE TypeOK'
    <3>1. NewJti \in Jti
      <4>1. Fresh \subseteq Nat /\ Fresh # {}
        BY <2>8, JtiAssumption DEF LoginIssue, RefreshIssue, IssueRefreshToken, Fresh
      <4>2. \E x \in Fresh : \A y \in Fresh : x =< y
        BY <4>1, LeastNatural
      <4> QED
        BY <4>2 DEF NewJti, Min, Fresh
    <3>2. call' \in [Call -> Row]
      <4>1. \E label \in PC : call' = [call EXCEPT ![c].pc = label, ![c].jti = NewJti]
        BY <1>0, <2>8 DEF LoginIssue, RefreshIssue, IssueRefreshToken
      <4> QED
        BY <2>3, <3>1, <4>1
    <3>3. call[c].epoch \in Nat
      BY <2>1 DEF Row
    <3>4. /\ token' \in [Jti -> {"free", "live", "revoked"}] /\ raced' \subseteq Jti
          /\ epoch' \in [Jti -> Nat] /\ heirs' \in [Jti -> Nat]
      BY <2>1, <2>8, <3>1, <3>3 DEF LoginIssue, RefreshIssue, IssueRefreshToken
    <3> QED
      BY <2>1, <2>8, <3>2, <3>4
         DEF LoginIssue, RefreshIssue, TypeOK, Row, browserVars, counters
  <2>9. ASSUME NEW c \in Call, RefreshRead(c) \/ RefreshRevoke(c) PROVE TypeOK'
    <3>1. \A j \in Jti : epoch[j] \in Nat
      BY <2>1
    <3>2. call[c].jti \in Jti \union {None}
      BY <2>1 DEF Row
    <3>3. call' \in [Call -> Row]
      <4>1. call' = [call EXCEPT ![c].pc = "reissue"] => call' \in [Call -> Row]
        BY <1>0, <2>3
      <4>2. ASSUME NEW label \in PC, NEW j \in Jti \union {None}, NEW e \in Nat,
                   call' = [call EXCEPT ![c].pc = label, ![c].epoch = e]
            PROVE  call' \in [Call -> Row]
        BY <2>3, <4>2
      <4> QED
        BY <1>0, <2>1, <2>3, <2>9, <3>1, <3>2, <4>1, <4>2 DEF RefreshRead, RefreshRevoke, Goto
    <3>4. token' \in [Jti -> {"free", "live", "revoked"}]
      BY <2>1, <2>9 DEF RefreshRead, RefreshRevoke, serverVars
    <3> QED
      BY <2>1, <2>9, <3>3, <3>4
         DEF RefreshRead, RefreshRevoke, TypeOK, Row, serverVars, browserVars, counters
  <2>10. ASSUME NEW c \in Call, Lose(c) PROVE TypeOK'
    <3>1. call' \in [Call -> Row] /\ mishaps' \in Nat
      BY <2>1, <2>2, <2>10 DEF Lose, Mishap
    <3> QED
      BY <2>1, <2>10, <3>1 DEF Lose, TypeOK, Row, serverVars
  <2>11. ASSUME \/ \E x \in Resetter : ResetRead(x) \/ ResetCommit(x)
                \/ \E t \in Tab : Expire(t)
                \/ Unlock
                \/ UNCHANGED vars
         PROVE  TypeOK'
    <3>1. ASSUME NEW x \in Resetter, ResetRead(x) \/ ResetCommit(x) PROVE TypeOK'
      <4>1. resetter' \in [Resetter -> {"idle", "commit"}]
        BY <2>1, <3>1 DEF ResetRead, ResetCommit
      <4>2. CASE ResetRead(x)
        BY <2>1, <4>1, <4>2 DEF ResetRead, TypeOK, Row, browserVars, counters
      <4>3. CASE ResetCommit(x)
        <5>1. user' \in [failed : Nat, locked : BOOLEAN, password : Nat]
          BY <2>1, <4>3 DEF ResetCommit
        <5>2. token' \in [Jti -> {"free", "live", "revoked"}]
          BY <2>1, <4>3 DEF ResetCommit
        <5>3. straddled' \in BOOLEAN /\ resetOpen' \in BOOLEAN
          BY <4>3 DEF ResetCommit
        <5> QED
          BY <2>1, <4>1, <4>3, <5>1, <5>2, <5>3
             DEF ResetCommit, TypeOK, Row, browserVars, counters
      <4> QED
        BY <3>1, <4>2, <4>3
    <3>2. ASSUME NEW t \in Tab, Expire(t) PROVE TypeOK'
      BY <2>1, <3>2 DEF Expire, Mishap, TypeOK, Row, serverVars
    <3>3. CASE Unlock
      <4>1. user' \in [failed : Nat, locked : BOOLEAN, password : Nat] /\ mishaps' \in Nat
        <5>1. \A u \in [failed : Nat, locked : BOOLEAN, password : Nat] :
                  [u EXCEPT !.locked = FALSE] \in [failed : Nat, locked : BOOLEAN, password : Nat]
          OBVIOUS
        <5>2. mishaps' \in Nat
          BY <2>1, <3>3 DEF Unlock, Mishap
        <5> QED
          BY <2>1, <3>3, <5>1, <5>2 DEF Unlock
      <4> QED
        BY <2>1, <3>3, <4>1 DEF Unlock, TypeOK, Row, browserVars
    <3>4. CASE UNCHANGED vars
      BY <2>1, <3>4 DEF TypeOK, Row, vars, serverVars, browserVars, counters
    <3> QED
      BY <2>11, <3>1, <3>2, <3>3, <3>4
  <2> QED
    BY <2>4, <2>5, <2>6, <2>7, <2>8, <2>9, <2>10, <2>11 DEF Next, CallStep
<1> QED
  BY <1>1, <1>2, PTL DEF Spec

----------------------------------------------------------------------------
(* The steps, by what they do to the tokens.                               *)

Others(c) == \A b \in Call \ {c} : call'[b] = call[b]

KeepsTokens ==
    /\ token' = token /\ epoch' = epoch /\ heirs' = heirs
    /\ user'.password = user.password /\ straddled' = straddled

\* A call ends or is sent; with a renewal or a login it leaves its token in
\* the jar, and only one that is lost may have revoked a token for nothing.
Ends(c) ==
    /\ Others(c) /\ KeepsTokens /\ raced' = raced
    /\ call'[c].pc \in {"idle", "sent", "denied"} /\ call'[c].jti = None
    /\ \/ jar' = jar /\ (lost' \/ (lost' = lost /\ call[c].pc \notin {"reissue", "renewed"}))
       \/ jar' = call[c].jti /\ lost' = lost /\ call[c].pc \in {"renewed", "welcome"}

\* A login passes its check.
LogsIn(c) ==
    /\ Others(c) /\ KeepsTokens /\ raced' = raced /\ jar' = jar /\ lost' = lost
    /\ call'[c].jti = call[c].jti
    /\ \/ call[c].pc = "sent" /\ call'[c].pc = "check" /\ call'[c].epoch = user.password
       \/ call[c].pc = "check" /\ call'[c].pc = "issue" /\ call'[c].epoch = call[c].epoch

\* A login or a refresh gets a new token.
Issues(c) ==
    \E j \in Fresh :
        /\ Others(c) /\ jar' = jar /\ lost' = lost
        /\ user'.password = user.password /\ straddled' = straddled
        /\ call'[c].jti = j
        /\ token' = [token EXCEPT ![j] = "live"]
        /\ epoch' = [epoch EXCEPT ![j] = call[c].epoch]
        /\ raced' = raced \ {j}
        /\ \/ /\ call[c].pc = "issue" /\ call'[c].pc = "welcome"
              /\ heirs' = [heirs EXCEPT ![j] = 0]
           \/ /\ call[c].pc = "reissue" /\ call'[c].pc = "renewed"
              /\ heirs' = [heirs EXCEPT ![j] = 0, ![call[c].jti] = @ + 1]

\* A refresh is sent with the cookie.
Asks(c) ==
    /\ Others(c) /\ KeepsTokens /\ jar' = jar /\ lost' = lost
    /\ call[c].pc = "denied" /\ call'[c].pc = "refresh" /\ call'[c].jti = jar
    /\ raced \subseteq raced'
    /\ jar # None /\ jar \notin raced' =>
           \A b \in Call : ~(call[b].jti = jar /\ call[b].pc \in {"refresh", "revoke", "reissue"})

\* A refresh finds its token, or is refused.
Reads(c) ==
    /\ Others(c) /\ KeepsTokens /\ raced' = raced /\ jar' = jar /\ lost' = lost
    /\ call[c].pc = "refresh" /\ call'[c].jti = call[c].jti
    /\ \/ call'[c].pc = "refused"
       \/ /\ call'[c].pc = "revoke" /\ call[c].jti \in Jti /\ token[call[c].jti] = "live"
          /\ call'[c].epoch = epoch[call[c].jti]

\* A refresh revokes its token.
Revokes(c) ==
    /\ Others(c) /\ raced' = raced /\ jar' = jar /\ lost' = lost
    /\ epoch' = epoch /\ heirs' = heirs
    /\ user'.password = user.password /\ straddled' = straddled
    /\ token' = [token EXCEPT ![call[c].jti] = "revoked"]
    /\ call[c].pc = "revoke" /\ call'[c].pc = "reissue"
    /\ call'[c].jti = call[c].jti /\ call'[c].epoch = call[c].epoch

\* A password reset revokes every token.
ResetsPassword ==
    /\ call' = call /\ jar' = jar /\ lost' = lost /\ raced' = raced
    /\ epoch' = epoch /\ heirs' = heirs
    /\ user'.password = user.password + 1
    /\ \A j \in Jti : token'[j] = IF token[j] = "live" THEN "revoked" ELSE token[j]
    /\ straddled' = (straddled \/ \E c \in Call :
                                      call[c].pc \in {"check", "issue", "revoke", "reissue"})

Rests == call' = call /\ jar' = jar /\ lost' = lost /\ raced' = raced /\ KeepsTokens

\* Every step is one of these.
LEMMA StepKinds ==
    ASSUME TypeOK, [Next]_vars
    PROVE  \/ \E c \in Call : \/ Ends(c) \/ LogsIn(c) \/ Issues(c) \/ Asks(c)
                              \/ Reads(c) \/ Revokes(c)
           \/ ResetsPassword
           \/ Rests
<1>1. /\ call \in [Call -> Row]
      /\ user \in [failed : Nat, locked : BOOLEAN, password : Nat]
  BY DEF TypeOK, Row
<1>2. Idle.pc = "idle" /\ Idle.jti = None
  BY DEF Idle
\* The forms the row of a call takes.
<1>3. ASSUME NEW c \in Call, End(c) \/ Deny(c) \/ Resend(c)
      PROVE  Others(c) /\ call'[c].pc \in {"idle", "sent", "denied"} /\ call'[c].jti = None
  <2>1. PICK row : /\ call' = [call EXCEPT ![c] = row]
                   /\ row.pc \in {"idle", "sent", "denied"} /\ row.jti = None
    <3>1. /\ [Idle EXCEPT !.pc = "denied", !.kind = call[c].kind].pc = "denied"
          /\ [Idle EXCEPT !.pc = "denied", !.kind = call[c].kind].jti = None
          /\ [Idle EXCEPT !.pc = "sent", !.kind = call[c].kind, !.bearer = TRUE].pc = "sent"
          /\ [Idle EXCEPT !.pc = "sent", !.kind = call[c].kind, !.bearer = TRUE].jti = None
      BY DEF Idle
    <3> QED
      BY <1>2, <1>3, <3>1 DEF End, Deny, Resend
  <2> QED
    BY <1>1, <2>1 DEF Others
<1>4. ASSUME NEW c \in Call, NEW kind \in Kind, Send(c, kind) PROVE Ends(c)
  <2>1. PICK row : /\ call' = [call EXCEPT ![c] = row] /\ row.pc = "sent" /\ row.jti = None
    <3>1. /\ [Idle EXCEPT !.pc = "sent", !.kind = kind, !.bearer = TabOf[c] \in access].pc = "sent"
          /\ [Idle EXCEPT !.pc = "sent", !.kind = kind, !.bearer = TabOf[c] \in access].jti = None
      BY DEF Idle
    <3> QED
      BY <1>4, <3>1 DEF Send
  <2> QED
    BY <1>1, <1>2, <1>4, <2>1
       DEF Send, Ends, Others, KeepsTokens, serverVars, browserVars
<1>5. ASSUME NEW c \in Call, Denied(c) PROVE Ends(c) \/ Asks(c)
  <2>1. CASE TabOf[c] \in refreshing
    BY <1>3, <1>5, <2>1 DEF Denied, Ends, KeepsTokens, counters
  <2>2. CASE TabOf[c] \notin refreshing
    <3>1. Others(c) /\ call'[c].pc = "refresh" /\ call'[c].jti = jar
      BY <1>1, <1>5, <2>2 DEF Denied, Others, Row
    <3> QED
      BY <1>5, <2>2, <3>1 DEF Denied, Asks, KeepsTokens, counters
  <2> QED
    BY <2>1, <2>2
<1>6. ASSUME NEW c \in Call,
             \/ Renewed(c) \/ Refused(c) \/ Welcome(c) \/ Serve(c) \/ LoginLocked(c)
             \/ LoginWrong(c) \/ Lose(c)
      PROVE  Ends(c)
  <2>1. Others(c) /\ call'[c].pc \in {"idle", "sent", "denied"} /\ call'[c].jti = None
    BY <1>3, <1>6 DEF Renewed, Refused, Welcome, Serve, LoginLocked, LoginWrong, Lose
  <2>2. KeepsTokens /\ raced' = raced
    BY <1>1, <1>6
       DEF Renewed, Refused, Welcome, Serve, LoginLocked, LoginWrong, Lose, KeepsTokens, serverVars
  <2>3. \/ jar' = jar /\ (lost' \/ (lost' = lost /\ call[c].pc \notin {"reissue", "renewed"}))
        \/ jar' = call[c].jti /\ lost' = lost /\ call[c].pc \in {"renewed", "welcome"}
    BY <1>6
       DEF Renewed, Refused, Welcome, Serve, LoginLocked, LoginWrong, Lose, browserVars, counters
  <2> QED
    BY <2>1, <2>2, <2>3 DEF Ends
<1>7. ASSUME NEW c \in Call, LoginRead(c) \/ LoginRight(c) PROVE LogsIn(c)
  <2>1. CASE LoginRead(c)
    <3>1. /\ Others(c) /\ call'[c].pc = "check" /\ call'[c].jti = call[c].jti
          /\ call'[c].epoch = user.password
      BY <1>1, <2>1 DEF LoginRead, Others, Row
    <3> QED
      BY <2>1, <3>1 DEF LoginRead, LogsIn, KeepsTokens, serverVars, browserVars, counters
  <2>2. CASE LoginRight(c)
    <3>1. /\ Others(c) /\ call'[c].pc = "issue" /\ call'[c].jti = call[c].jti
          /\ call'[c].epoch = call[c].epoch
      BY <1>1, <2>2 DEF LoginRight, Others, Row
    <3>2. user'.password = user.password
      BY <1>1, <2>2 DEF LoginRight
    <3> QED
      BY <2>2, <3>1, <3>2 DEF LoginRight, LogsIn, KeepsTokens, browserVars, counters
  <2> QED
    BY <1>7, <2>1, <2>2
<1>8. ASSUME NEW c \in Call, LoginIssue(c) \/ RefreshIssue(c) PROVE Issues(c)
  <2>1. NewJti \in Fresh
    <3>1. Fresh \subseteq Nat /\ Fresh # {}
      BY <1>8, JtiAssumption DEF LoginIssue, RefreshIssue, IssueRefreshToken, Fresh
    <3>2. \E x \in Fresh : \A y \in Fresh : x =< y
      BY <3>1, LeastNatural
    <3> QED
      BY <3>2 DEF NewJti, Min
  <2>2. /\ Others(c) /\ call'[c].jti = NewJti
        /\ \/ call[c].pc = "issue" /\ call'[c].pc = "welcome"
              /\ heirs' = [heirs EXCEPT ![NewJti] = 0]
           \/ /\ call[c].pc = "reissue" /\ call'[c].pc = "renewed"
              /\ heirs' = [heirs EXCEPT ![NewJti] = 0, ![call[c].jti] = @ + 1]
    BY <1>1, <1>8 DEF LoginIssue, RefreshIssue, IssueRefreshToken, Others, Row
  <2> QED
    BY <1>8, <2>1, <2>2
       DEF LoginIssue, RefreshIssue, IssueRefreshToken, Issues, browserVars, counters
<1>9. ASSUME NEW c \in Call, RefreshRead(c) PROVE Reads(c)
  <2>1. call[c].jti \in Jti \union {None}
    BY <1>1 DEF Row
  <2>2. /\ Others(c) /\ call'[c].jti = call[c].jti
        /\ \/ call'[c].pc = "refused"
           \/ /\ call'[c].pc = "revoke" /\ call[c].jti # None /\ token[call[c].jti] = "live"
              /\ call'[c].epoch = epoch[call[c].jti]
    BY <1>1, <1>9 DEF RefreshRead, Goto, Others, Row
  <2> QED
    BY <1>9, <2>1, <2>2 DEF RefreshRead, Reads, KeepsTokens, serverVars, browserVars, counters
<1>10. ASSUME NEW c \in Call, RefreshRevoke(c) PROVE Revokes(c)
  <2>1. /\ Others(c) /\ call'[c].pc = "reissue" /\ call'[c].jti = call[c].jti
        /\ call'[c].epoch = call[c].epoch
    BY <1>1, <1>10 DEF RefreshRevoke, Goto, Others, Row
  <2> QED
    BY <1>10, <2>1 DEF RefreshRevoke, Revokes, browserVars, counters
<1>11. ASSUME NEW x \in Resetter, ResetCommit(x) PROVE ResetsPassword
  BY <1>11 DEF ResetCommit, ResetsPassword, browserVars, counters
<1>12. ASSUME \/ \E x \in Resetter : ResetRead(x)
              \/ \E t \in Tab : Expire(t)
              \/ Unlock
              \/ UNCHANGED vars
       PROVE  Rests
  BY <1>1, <1>12
     DEF ResetRead, Expire, Unlock, Rests, KeepsTokens, vars, serverVars, browserVars, counters
<1> QED
  BY <1>4, <1>5, <1>6, <1>7, <1>8, <1>9, <1>10, <1>11, <1>12 DEF Next, CallStep

----------------------------------------------------------------------------
\* Tokens, and the logins and refreshes that are about to insert one, go back
\* to the password of now.
EpochInv ==
    ~straddled =>
        /\ \A j \in Jti : token[j] = "live" => epoch[j] = user.password
        /\ \A c \in Call : call[c].pc \in {"check", "issue", "revoke", "reissue"} =>
               call[c].epoch = user.password

\* After a reset no live token goes back to an earlier password, unless the
\* reset committed between the check of a login or refresh and its insert.
THEOREM TokensFollowPassword == Spec => []LiveTokensFollowPassword
<1>1. Init => EpochInv
  BY DEF Init, EpochInv, Idle
<1>2. TypeOK /\ EpochInv /\ [Next]_vars => EpochInv'
  <2> SUFFICES ASSUME TypeOK, EpochInv, [Next]_vars, ~straddled' PROVE EpochInv'
    BY DEF EpochInv
  <2>1. DOMAIN token = Jti /\ DOMAIN epoch = Jti
    BY DEF TypeOK
  <2>2. ASSUME NEW c \in Call, Ends(c) PROVE EpochInv'
    BY <2>2 DEF Ends, Others, KeepsTokens, EpochInv
  <2>3. ASSUME NEW c \in Call, LogsIn(c) PROVE EpochInv'
    BY <2>3 DEF LogsIn, Others, KeepsTokens, EpochInv
  <2>4. ASSUME NEW c \in Call, Issues(c) PROVE EpochInv'
    <3>1. PICK j \in Jti : /\ Others(c) /\ user'.password = user.password /\ straddled' = straddled
                           /\ token' = [token EXCEPT ![j] = "live"]
                           /\ epoch' = [epoch EXCEPT ![j] = call[c].epoch]
                           /\ call[c].pc \in {"issue", "reissue"}
                           /\ call'[c].pc \in {"welcome", "renewed"}
      BY <2>4 DEF Issues, Fresh
    <3> QED
      BY <2>1, <3>1 DEF Others, EpochInv
  <2>5. ASSUME NEW c \in Call, Asks(c) PROVE EpochInv'
    BY <2>5 DEF Asks, Others, KeepsTokens, EpochInv
  <2>6. ASSUME NEW c \in Call, Reads(c) PROVE EpochInv'
    BY <2>6 DEF Reads, Others, KeepsTokens, EpochInv
  <2>7. ASSUME NEW c \in Call, Revokes(c) PROVE EpochInv'
    <3>1. \A j \in Jti : token'[j] = "live" => token[j] = "live"
      BY <2>1, <2>7 DEF Revokes
    <3> QED
      BY <2>7, <3>1 DEF Revokes, Others, EpochInv
  <2>8. CASE ResetsPassword
    BY <2>8 DEF ResetsPassword, EpochInv
  <2>9. CASE Rests
    BY <2>9 DEF Rests, KeepsTokens, EpochInv
  <2> QED
    BY <2>2, <2>3, <2>4, <2>5, <2>6, <2>7, <2>8, <2>9, StepKinds
<1>3. EpochInv => LiveTokensFollowPassword
  BY DEF EpochInv, LiveTokensFollowPassword
<1> QED
  BY <1>1, <1>2, <1>3, SessionTypes, PTL DEF Spec

----------------------------------------------------------------------------
Holds(c, j) == call[c].jti = j /\ call[c].pc \in {"refresh", "revoke", "reissue"}

\* A refresh that is past its check has a token, and a dead one once it has
\* revoked it.
DeadInv ==
    \A c \in Call :
        /\ call[c].pc \in {"revoke", "reissue"} => call[c].jti \in Jti
        /\ call[c].pc = "reissue" => token[call[c].jti] # "live"

\* A token that did not race is held by one refresh, and has no heir until
\* that one is done.
HolderInv ==
    \A j \in Jti \ raced, c \in Call : Holds(c, j) =>
        /\ \A b \in Call \ {c} : ~Holds(b, j)
        /\ call[c].pc \in {"revoke", "reissue"} => heirs[j] = 0

RotateInv == DeadInv /\ HolderInv /\ RotatesOnce

\* Rotation: a token is exchanged for at most one other and is dead once it
\* has been, unless two refreshes held it at the same time.
THEOREM RotationIsOnce == Spec => []RotatesOnce
<1>1. Init => RotateInv
  <2> SUFFICES ASSUME Init PROVE RotateInv
    OBVIOUS
  <2>1. \A c \in Call : call[c].pc = "idle"
    BY DEF Init, Idle
  <2>2. \A j \in Jti : heirs[j] = 0
    BY DEF Init
  <2> QED
    BY <2>1, <2>2 DEF RotateInv, DeadInv, HolderInv, RotatesOnce, Holds
<1>2. TypeOK /\ RotateInv /\ [Next]_vars => RotateInv'
  <2> SUFFICES ASSUME TypeOK, RotateInv, [Next]_vars PROVE RotateInv'
    OBVIOUS
  <2>1. /\ DOMAIN token = Jti /\ heirs \in [Jti -> Nat]
        /\ DeadInv /\ HolderInv /\ RotatesOnce
    BY DEF TypeOK, RotateInv
  \* A step that leaves the tokens alone and has no refresh go past its check.
  <2>2. ASSUME token' = token, heirs' = heirs, raced \subseteq raced',
               \A c \in Call : call'[c].pc \in {"refresh", "revoke", "reissue"} =>
                                   call'[c].pc = call[c].pc /\ call'[c].jti = call[c].jti
        PROVE  RotateInv'
    <3>1. \A c \in Call : \A j : Holds(c, j)' => Holds(c, j) /\ call'[c].pc = call[c].pc
      BY <2>2 DEF Holds
    <3>2. DeadInv'
      BY <2>1, <2>2 DEF DeadInv
    <3>3. HolderInv'
      BY <2>1, <2>2, <3>1 DEF HolderInv
    <3>4. RotatesOnce'
      BY <2>1, <2>2 DEF RotatesOnce
    <3> QED
      BY <3>2, <3>3, <3>4 DEF RotateInv
  <2>3. ASSUME NEW c \in Call, Ends(c) \/ LogsIn(c) PROVE RotateInv'
    <3>1. call'[c].pc \notin {"refresh", "revoke", "reissue"}
      BY <2>3 DEF Ends, LogsIn
    <3> QED
      BY <2>2, <2>3, <3>1 DEF Ends, LogsIn, Others, KeepsTokens
  <2>4. ASSUME NEW c \in Call, Issues(c) PROVE RotateInv'
    <3>1. PICK j \in Fresh :
              /\ Others(c) /\ raced' = raced \ {j} /\ call'[c].jti = j
              /\ token' = [token EXCEPT ![j] = "live"]
              /\ \/ /\ call[c].pc = "issue" /\ call'[c].pc = "welcome"
                    /\ heirs' = [heirs EXCEPT ![j] = 0]
                 \/ /\ call[c].pc = "reissue" /\ call'[c].pc = "renewed"
                    /\ heirs' = [heirs EXCEPT ![j] = 0, ![call[c].jti] = @ + 1]
      BY <2>4 DEF Issues
    <3>2. j \in Jti /\ \A b \in Call : call[b].jti # j
      BY <3>1 DEF Fresh
    <3>3. \A k : \A b \in Call : Holds(b, k)' => b # c /\ k # j /\ Holds(b, k) /\ call'[b] = call[b]
      BY <3>1, <3>2 DEF Holds, Others
    <3>4. /\ heirs'[j] = 0
          /\ \A k \in Jti \ {j} : \/ heirs'[k] = heirs[k]
                                  \/ /\ Holds(c, k) /\ call[c].pc = "reissue"
                                     /\ heirs'[k] = heirs[k] + 1
      BY <2>1, <3>1, <3>2 DEF Holds, DeadInv
    <3>5. \A k \in Jti \ {j} : token'[k] = token[k]
      BY <2>1, <3>1
    <3>6. DeadInv'
      BY <2>1, <3>1, <3>2, <3>5 DEF DeadInv, Others
    <3>7. HolderInv'
      <4> SUFFICES ASSUME NEW k \in Jti \ raced', NEW b \in Call, Holds(b, k)'
                   PROVE  /\ \A a \in Call \ {b} : ~Holds(a, k)'
                          /\ call'[b].pc \in {"revoke", "reissue"} => heirs'[k] = 0
        BY DEF HolderInv
      <4>1. b # c /\ k # j /\ k \notin raced /\ Holds(b, k) /\ call'[b] = call[b]
        BY <3>1, <3>3
      <4>2. \A a \in Call \ {b} : ~Holds(a, k)
        BY <2>1, <4>1 DEF HolderInv
      <4>3. heirs'[k] = heirs[k]
        BY <3>4, <4>1, <4>2
      <4> QED
        BY <2>1, <3>3, <4>1, <4>2, <4>3 DEF HolderInv
    <3>8. RotatesOnce'
      <4> SUFFICES ASSUME NEW k \in Jti \ raced'
                   PROVE  heirs'[k] =< 1 /\ (heirs'[k] = 1 => token'[k] # "live")
        BY DEF RotatesOnce
      <4>1. CASE k = j
        BY <3>4, <4>1
      <4>2. CASE k # j /\ heirs'[k] = heirs[k]
        BY <2>1, <3>1, <3>5, <4>2 DEF RotatesOnce
      <4>3. CASE k # j /\ Holds(c, k) /\ call[c].pc = "reissue" /\ heirs'[k] = heirs[k] + 1
        <5>1. heirs[k] = 0
          BY <2>1, <3>1, <4>3 DEF HolderInv
        <5>2. token[k] # "live"
          BY <2>1, <4>3 DEF DeadInv, Holds
        <5> QED
          BY <3>5, <4>3, <5>1, <5>2
      <4> QED
        BY <3>4, <4>1, <4>2, <4>3
    <3> QED
      BY <3>6, <3>7, <3>8 DEF RotateInv
  <2>5. ASSUME NEW c \in Call, Asks(c) PROVE RotateInv'
    <3>1. /\ \A b \in Call \ {c} : call'[b] = call[b]
          /\ token' = token /\ heirs' = heirs /\ raced \subseteq raced'
          /\ call'[c].pc = "refresh" /\ call'[c].jti = jar
          /\ jar # None /\ jar \notin raced' => \A b \in Call : ~Holds(b, jar)
      BY <2>5 DEF Asks, Others, KeepsTokens, Holds
    <3>2. DeadInv'
      BY <2>1, <3>1 DEF DeadInv
    <3>3. \A k : \A b \in Call : Holds(b, k)' =>
              \/ b # c /\ Holds(b, k) /\ call'[b] = call[b]
              \/ b = c /\ k = jar
      BY <3>1 DEF Holds
    <3>4. HolderInv'
      BY <2>1, <3>1, <3>3, JtiAssumption DEF HolderInv
    <3>5. RotatesOnce'
      BY <2>1, <3>1 DEF RotatesOnce
    <3> QED
      BY <3>2, <3>4, <3>5 DEF RotateInv
  <2>6. ASSUME NEW c \in Call, Reads(c) PROVE RotateInv'
    <3>1. CASE call'[c].pc = "refused"
      BY <2>2, <2>6, <3>1 DEF Reads, Others, KeepsTokens
    <3>2. CASE call'[c].pc = "revoke" /\ call[c].jti \in Jti /\ token[call[c].jti] = "live"
      <4>1. /\ \A b \in Call \ {c} : call'[b] = call[b]
            /\ token' = token /\ heirs' = heirs /\ raced' = raced
            /\ call[c].pc = "refresh" /\ call'[c].jti = call[c].jti
        BY <2>6 DEF Reads, Others, KeepsTokens
      <4>2. \A k : \A b \in Call : Holds(b, k)' => Holds(b, k)
        BY <4>1 DEF Holds
      <4>3. DeadInv'
        BY <2>1, <3>2, <4>1 DEF DeadInv
      <4>4. call[c].jti \notin raced => heirs[call[c].jti] = 0
        BY <2>1, <3>2 DEF RotatesOnce
      <4>5. HolderInv'
        BY <2>1, <4>1, <4>2, <4>4 DEF HolderInv, Holds
      <4>6. RotatesOnce'
        BY <2>1, <4>1 DEF RotatesOnce
      <4> QED
        BY <4>3, <4>5, <4>6 DEF RotateInv
    <3> QED
      BY <2>6, <3>1, <3>2 DEF Reads
  <2>7. ASSUME NEW c \in Call, Revokes(c) PROVE RotateInv'
    <3>1. /\ \A b \in Call \ {c} : call'[b] = call[b]
          /\ heirs' = heirs /\ raced' = raced
          /\ token' = [token EXCEPT ![call[c].jti] = "revoked"]
          /\ call[c].pc = "revoke" /\ call'[c].pc = "reissue" /\ call'[c].jti = call[c].jti
      BY <2>7 DEF Revokes, Others
    <3>2. \A k \in Jti : token'[k] = "live" => token[k] = "live" /\ k # call[c].jti
      BY <2>1, <3>1
    <3>3. DeadInv'
      BY <2>1, <3>1, <3>2 DEF DeadInv
    <3>4. \A k : \A b \in Call : Holds(b, k)' => Holds(b, k)
      BY <3>1 DEF Holds
    <3>5. HolderInv'
      BY <2>1, <3>1, <3>4 DEF HolderInv, Holds
    <3>6. RotatesOnce'
      BY <2>1, <3>1, <3>2 DEF RotatesOnce
    <3> QED
      BY <3>3, <3>5, <3>6 DEF RotateInv
  <2>8. CASE ResetsPassword
    <3>1. call' = call /\ heirs' = heirs /\ raced' = raced
      BY <2>8 DEF ResetsPassword
    <3>2. \A k \in Jti : token'[k] # "live"
      BY <2>8 DEF ResetsPassword
    <3>3. DeadInv'
      BY <2>1, <3>1, <3>2 DEF DeadInv
    <3>4. HolderInv'
      BY <2>1, <3>1 DEF HolderInv, Holds
    <3>5. RotatesOnce'
      BY <2>1, <3>1, <3>2 DEF RotatesOnce
    <3> QED
      BY <3>3, <3>4, <3>5 DEF RotateInv
  <2>9. CASE Rests
    BY <2>2, <2>9 DEF Rests, KeepsTokens
  <2> QED
    BY <2>3, <2>4, <2>5, <2>6, <2>7, <2>8, <2>9, StepKinds
<1>3. RotateInv => RotatesOnce
  BY DEF RotateInv
<1> QED
  BY <1>1, <1>2, <1>3, SessionTypes, PTL DEF Spec

----------------------------------------------------------------------------
\* The token of an answer on its way is live, and nobody else has it.
AnswerInv ==
    \A c \in Call : call[c].pc \in {"renewed", "welcome"} =>
        /\ call[c].jti \in Jti /\ token[call[c].jti] = "live" /\ jar # call[c].jti
        /\ \A b \in Call \ {c} : call[b].jti # call[c].jti

\* A cookie that is dead is about to be replaced.
JarInv ==
    jar # None /\ token[jar] # "live" => \E c \in Call : call[c].pc \in {"reissue", "renewed"}

CookieInv == ~lost /\ user.password = 0 => AnswerInv /\ JarInv

\* With no refresh under way the cookie is live, in whatever order the answers
\* of the tabs came back, as long as no answer was lost and no password reset.
THEOREM CookieStaysLive == Spec => []CookieIsLive
<1>1. Init => CookieInv
  <2> SUFFICES ASSUME Init PROVE CookieInv
    OBVIOUS
  <2>1. jar = None /\ \A c \in Call : call[c].pc = "idle"
    BY DEF Init, Idle
  <2> QED
    BY <2>1 DEF CookieInv, AnswerInv, JarInv
<1>2. TypeOK /\ CookieInv /\ [Next]_vars => CookieInv'
  <2> SUFFICES ASSUME TypeOK, CookieInv, [Next]_vars, ~lost', user'.password = 0
               PROVE  AnswerInv' /\ JarInv'
    BY DEF CookieInv
  <2>1. /\ DOMAIN token = Jti /\ jar \in Jti \union {None} /\ user.password \in Nat
        /\ \A c \in Call : call[c].jti \in Jti \union {None}
    BY DEF TypeOK
  <2>2. ASSUME ~lost, user.password = 0 PROVE AnswerInv /\ JarInv
    BY <2>2 DEF CookieInv
  <2>3. ASSUME NEW c \in Call, Ends(c) PROVE AnswerInv' /\ JarInv'
    <3>1. /\ \A b \in Call \ {c} : call'[b] = call[b]
          /\ token' = token /\ lost' = lost /\ user'.password = user.password
          /\ call'[c].pc \in {"idle", "sent", "denied"} /\ call'[c].jti = None
          /\ \/ jar' = jar /\ call[c].pc \notin {"reissue", "renewed"}
             \/ jar' = call[c].jti /\ call[c].pc \in {"renewed", "welcome"}
      BY <2>3 DEF Ends, Others, KeepsTokens
    <3>2. AnswerInv /\ JarInv
      BY <2>2, <3>1
    <3>3. AnswerInv'
      BY <3>1, <3>2, JtiAssumption DEF AnswerInv
    <3>4. JarInv'
      BY <3>1, <3>2 DEF AnswerInv, JarInv
    <3> QED
      BY <3>3, <3>4
  <2>4. ASSUME NEW c \in Call, LogsIn(c) \/ Reads(c) PROVE AnswerInv' /\ JarInv'
    <3>1. /\ \A b \in Call \ {c} : call'[b] = call[b]
          /\ token' = token /\ lost' = lost /\ user'.password = user.password /\ jar' = jar
          /\ call'[c].jti = call[c].jti
          /\ call[c].pc \notin {"reissue", "renewed"}
          /\ call'[c].pc \notin {"renewed", "welcome"}
      BY <2>4 DEF LogsIn, Reads, Others, KeepsTokens
    <3>2. AnswerInv /\ JarInv
      BY <2>2, <3>1
    <3>3. AnswerInv'
      BY <3>1, <3>2 DEF AnswerInv
    <3>4. JarInv'
      BY <3>1, <3>2 DEF JarInv
    <3> QED
      BY <3>3, <3>4
  <2>5. ASSUME NEW c \in Call, Issues(c) PROVE AnswerInv' /\ JarInv'
    <3>1. PICK j \in Fresh :
              /\ \A b \in Call \ {c} : call'[b] = call[b]
              /\ token' = [token EXCEPT ![j] = "live"]
              /\ lost' = lost /\ user'.password = user.password /\ jar' = jar
              /\ call'[c].jti = j
              /\ call[c].pc = "reissue" => call'[c].pc = "renewed"
              /\ call[c].pc \in {"issue", "reissue"}
      BY <2>5 DEF Issues, Others
    <3>2. AnswerInv /\ JarInv
      BY <2>2, <3>1
    <3>3. j \in Jti /\ j # jar /\ \A b \in Call : call[b].jti # j
      BY <3>1 DEF Fresh
    <3>4. token'[j] = "live" /\ \A k \in Jti : token[k] = "live" => token'[k] = "live"
      BY <2>1, <3>1, <3>3
    <3>5. AnswerInv'
      <4> SUFFICES ASSUME NEW b \in Call, call'[b].pc \in {"renewed", "welcome"}
                   PROVE  /\ call'[b].jti \in Jti /\ token'[call'[b].jti] = "live"
                          /\ jar # call'[b].jti
                          /\ \A a \in Call \ {b} : call'[a].jti # call'[b].jti
        BY <3>1 DEF AnswerInv
      <4>1. CASE b = c
        BY <3>1, <3>3, <3>4, <4>1
      <4>2. CASE b # c
        BY <3>1, <3>2, <3>3, <3>4, <4>2 DEF AnswerInv
      <4> QED
        BY <4>1, <4>2
    <3>6. JarInv'
      BY <2>1, <3>1, <3>2, <3>4 DEF JarInv
    <3> QED
      BY <3>5, <3>6
  <2>6. ASSUME NEW c \in Call, Asks(c) PROVE AnswerInv' /\ JarInv'
    <3>1. /\ \A b \in Call \ {c} : call'[b] = call[b]
          /\ token' = token /\ lost' = lost /\ user'.password = user.password /\ jar' = jar
          /\ call'[c].jti = jar /\ call[c].pc = "denied" /\ call'[c].pc = "refresh"
      BY <2>6 DEF Asks, Others, KeepsTokens
    <3>2. AnswerInv /\ JarInv
      BY <2>2, <3>1
    <3>3. AnswerInv'
      BY <3>1, <3>2 DEF AnswerInv
    <3>4. JarInv'
      BY <3>1, <3>2 DEF JarInv
    <3> QED
      BY <3>3, <3>4
  <2>7. ASSUME NEW c \in Call, Revokes(c) PROVE AnswerInv' /\ JarInv'
    <3>1. /\ \A b \in Call \ {c} : call'[b] = call[b]
          /\ token' = [token EXCEPT ![call[c].jti] = "revoked"]
          /\ lost' = lost /\ user'.password = user.password /\ jar' = jar
          /\ call'[c].jti = call[c].jti
          /\ call[c].pc = "revoke" /\ call'[c].pc = "reissue"
      BY <2>7 DEF Revokes, Others
    <3>2. AnswerInv
      BY <2>2, <3>1
    <3>3. \A k \in Jti : k # call[c].jti => token'[k] = token[k]
      BY <2>1, <3>1
    <3>4. AnswerInv'
      BY <3>1, <3>2, <3>3 DEF AnswerInv
    <3>5. JarInv'
      BY <3>1 DEF JarInv
    <3> QED
      BY <3>4, <3>5
  <2>8. CASE ResetsPassword
    BY <2>1, <2>8 DEF ResetsPassword
  <2>9. CASE Rests
    BY <2>2, <2>9 DEF Rests, KeepsTokens, AnswerInv, JarInv
  <2> QED
    BY <2>3, <2>4, <2>5, <2>6, <2>7, <2>8, <2>9, StepKinds
<1>3. CookieInv => CookieIsLive
  BY DEF CookieInv, JarInv, CookieIsLive, Holding, RefreshPC
<1> QED
  BY <1>1, <1>2, <1>3, SessionTypes, PTL DEF Spec
=============================================================================
