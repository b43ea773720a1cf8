-------------------------- MODULE NacosConfigProofs --------------------------
(***************************************************************************)
(* Proofs about NacosConfig, for any number of versions, setters and        *)
(* readers.                                                                 *)
(***************************************************************************)
EXTENDS NacosConfig, TLAPS

\* How far CreateInstance is says which instance is global and what it holds; nothing
\* listens before CreateInstance has returned.
PhaseInv ==
  /\ ~Created => ~listening /\ \A v \in Versions : opc[v] = "none"
  /\ pc = "new" => config = Nil
  /\ pc \in {"created", "fetched", "read", "emitted"} => config = First
  /\ pc \in {"new", "created", "fetched"} => content[First] = Nothing /\ announced = Nothing
  /\ pc = "fetched" => got # Nothing
  /\ pc \in {"read", "emitted"} \/ Created => config # Nil /\ content[config] # Nothing

\* Nothing is newer than the server's version, and what OnChange stores is parsed.
VersionInv ==
  /\ \A i \in Instances : content[i] <= latest
  /\ got <= latest
  /\ \A v \in Versions : Busy(v) => v <= latest
  /\ \A v \in Versions : opc[v] \in {"parsed", "stored"} => content[v] = v

\* Getters and setters hold complete instances.
UseInv ==
  /\ \A r \in Readers : rpc[r] = "loaded" => Created /\ rptr[r] # Nil /\ content[rptr[r]] # Nothing
  /\ \A s \in Setters : spc[s] \in {"loaded", "done"} => sptr[s] # Nil
  /\ \A s \in Setters : spc[s] = "done" => s \in sets[sptr[s]]

\* Without overlaps one call of OnChange is under way, for a version not older than the one
\* in use; what it has stored is in use until it returns; no event is ahead of config.
OrderInv ==
  overlapped \/ /\ \A v, w \in Versions : Busy(v) /\ Busy(w) => v = w
                /\ \A v \in Versions : Busy(v) => Current <= v
                /\ \A v \in Versions : opc[v] = "stored" => config = v
                /\ announced <= Current
                /\ \A r \in Readers : rpc[r] = "loaded" => since[r] <= content[rptr[r]]

Inv == TypeOK /\ PhaseInv /\ VersionInv /\ UseInv /\ OrderInv

\* The kinds of values: versions are positive, First and Nothing are 0, Nil is neither.
LEMMA Kinds ==
  /\ \A v \in Versions : v \in Nat /\ v # Nothing /\ v # Nil /\ v # First /\ 0 <= v
  /\ Instances = Versions \union {First} /\ Nil \notin Instances /\ Nil # First
  /\ Nothing = 0 /\ Nothing \notin Versions
<1>1. \A v \in Versions : v \in Nat /\ v >= 1
  BY NacosAssumption DEF Versions
<1> QED BY <1>1 DEF Instances, Nothing, Nil, First

\* Every step keeps the types.
LEMMA TypeStep ==
  ASSUME Inv, [Next]_vars
  PROVE  TypeOK'
<1> USE DEF serverVars, createVars, setVars, readVars
<1>0. /\ TypeOK /\ (pc = "fetched" => got # Nothing) /\ First \in Instances
      /\ (pc \in {"fetched", "read"} => config = First)
  BY Kinds DEF Inv, PhaseInv
<1>1. CASE Create
  BY <1>0, <1>1 DEF TypeOK, Create, Fail
<1>2. CASE ReadFetch
  BY <1>0, <1>2 DEF TypeOK, ReadFetch, Fail
<1>3. CASE ReadParse
  <2>1. config = First /\ got \in Versions
    BY <1>0, <1>3 DEF TypeOK, ReadParse
  <2>2. content' \in [Instances -> Versions \union {Nothing}]
    BY <1>0, <1>3, <2>1 DEF TypeOK, ReadParse
  <2>3. \A v \in Versions : content'[v] = content[v]
    BY <1>0, <1>3, <2>1, Kinds DEF TypeOK, ReadParse
  <2> QED BY <1>0, <1>3, <2>2, <2>3 DEF TypeOK, ReadParse, Fail
<1>4. CASE EmitFirst
  BY <1>0, <1>4, Kinds DEF TypeOK, EmitFirst
<1>5. CASE Watch
  BY <1>0, <1>5 DEF TypeOK, Watch, Listen
<1>6. CASE Shutdown
  BY <1>0, <1>6, Kinds DEF TypeOK, Shutdown
<1>7. CASE Publish
  <2>1. latest' \in Versions
    BY <1>0, <1>7, NacosAssumption DEF TypeOK, Publish, Versions
  <2> QED BY <1>0, <1>7, <2>1 DEF TypeOK, Publish
<1>8. CASE Notify
  BY <1>0, <1>8, Kinds DEF TypeOK, Notify
<1>9. ASSUME NEW v \in Versions, Parse(v) PROVE TypeOK'
  <2>1. content' \in [Instances -> Versions \union {Nothing}] /\ \A w \in Versions : content'[w] \in {w, Nothing}
    BY <1>0, <1>9, Kinds DEF TypeOK, Parse
  <2>2. opc' \in [Versions -> {"none", "called", "parsed", "stored", "returned"}]
    BY <1>0, <1>9 DEF TypeOK, Parse
  <2> QED BY <1>0, <1>9, <2>1, <2>2 DEF TypeOK, Parse
<1>10. ASSUME NEW v \in Versions, Store(v) PROVE TypeOK'
  BY <1>0, <1>10, Kinds DEF TypeOK, Store
<1>11. ASSUME NEW v \in Versions, Emit(v) PROVE TypeOK'
  BY <1>0, <1>11, Kinds DEF TypeOK, Emit
<1>12. ASSUME NEW s \in Setters, SetLoad(s) PROVE TypeOK'
  BY <1>0, <1>12, Kinds DEF TypeOK, SetLoad
<1>13. ASSUME NEW s \in Setters, SetWrite(s) PROVE TypeOK'
  BY <1>0, <1>13, Kinds DEF TypeOK, SetWrite
<1>14. ASSUME NEW r \in Readers, GetLoad(r) PROVE TypeOK'
  BY <1>0, <1>14, Kinds DEF TypeOK, GetLoad
<1>15. ASSUME NEW r \in Readers, GetRead(r) PROVE TypeOK'
  BY <1>0, <1>15, Kinds DEF TypeOK, GetRead
<1>16. CASE MapRace
  BY <1>0, <1>16, Kinds DEF TypeOK, MapRace
<1>17. CASE UNCHANGED vars
  BY <1>0, <1>17, Kinds DEF TypeOK, vars
<1> QED BY <1>1, <1>2, <1>3, <1>4, <1>5, <1>6, <1>7, <1>8, <1>9, <1>10, <1>11, <1>12, <1>13, <1>14, <1>15, <1>16, <1>17 DEF Next

\* Every step keeps what the phases of CreateInstance say.
LEMMA PhaseStep ==
  ASSUME Inv, [Next]_vars
  PROVE  PhaseInv'
<1> USE DEF serverVars, createVars, setVars, readVars
<1>0. TypeOK /\ PhaseInv /\ VersionInv
  BY DEF Inv
<1>1. CASE Create
  BY <1>0, <1>1 DEF PhaseInv, Created, Create, Fail
<1>2. CASE ReadFetch
  BY <1>0, <1>2, Kinds DEF TypeOK, PhaseInv, Created, ReadFetch, Fail
<1>3. CASE ReadParse
  BY <1>0, <1>3, Kinds DEF TypeOK, PhaseInv, Created, ReadParse, Fail
<1>4. CASE EmitFirst
  BY <1>0, <1>4 DEF PhaseInv, Created, EmitFirst
<1>5. CASE Watch
  BY <1>0, <1>5 DEF PhaseInv, Created, Watch, Listen
<1>6. CASE Shutdown
  BY <1>0, <1>6 DEF PhaseInv, Created, Shutdown
<1>7. CASE Publish
  BY <1>0, <1>7 DEF PhaseInv, Created, Publish
<1>8. CASE Notify
  BY <1>0, <1>8 DEF PhaseInv, Created, Notify
<1>9. ASSUME NEW v \in Versions, Parse(v) PROVE PhaseInv'
  BY <1>0, <1>9 DEF TypeOK, PhaseInv, Created, Parse
<1>10. ASSUME NEW v \in Versions, Store(v) PROVE PhaseInv'
  BY <1>0, <1>10, Kinds DEF PhaseInv, VersionInv, Created, Store
<1>11. ASSUME NEW v \in Versions, Emit(v) PROVE PhaseInv'
  BY <1>0, <1>11 DEF PhaseInv, Created, Emit
<1>12. ASSUME NEW s \in Setters, SetLoad(s) PROVE PhaseInv'
  BY <1>0, <1>12 DEF PhaseInv, Created, SetLoad
<1>13. ASSUME NEW s \in Setters, SetWrite(s) PROVE PhaseInv'
  BY <1>0, <1>13 DEF PhaseInv, Created, SetWrite
<1>14. ASSUME NEW r \in Readers, GetLoad(r) PROVE PhaseInv'
  BY <1>0, <1>14 DEF PhaseInv, Created, GetLoad
<1>15. ASSUME NEW r \in Readers, GetRead(r) PROVE PhaseInv'
  BY <1>0, <1>15 DEF PhaseInv, Created, GetRead
<1>16. CASE MapRace
  BY <1>0, <1>16 DEF PhaseInv, Created, MapRace
<1>17. CASE UNCHANGED vars
  BY <1>0, <1>17 DEF PhaseInv, Created, vars
<1> QED BY <1>1, <1>2, <1>3, <1>4, <1>5, <1>6, <1>7, <1>8, <1>9, <1>10, <1>11, <1>12, <1>13, <1>14, <1>15, <1>16, <1>17 DEF Next

\* Every step keeps what is known of versions.
LEMMA VersionStep ==
  ASSUME Inv, [Next]_vars
  PROVE  VersionInv'
<1> USE DEF serverVars, createVars, setVars, readVars
<1>0. TypeOK /\ PhaseInv /\ VersionInv
  BY DEF Inv
<1>1. CASE Create
  BY <1>0, <1>1 DEF VersionInv, Busy, Create
<1>2. CASE ReadFetch
  <2>1. got' <= latest
    <3>1. latest \in Nat /\ got <= latest /\ got' \in {got, latest}
      BY <1>0, <1>2, Kinds DEF TypeOK, VersionInv, ReadFetch
    <3> QED BY <3>1
  <2>2. UNCHANGED <<content, latest, opc>>
    BY <1>2 DEF ReadFetch
  <2> QED BY <1>0, <2>1, <2>2 DEF VersionInv, Busy
<1>3. CASE ReadParse
  BY <1>0, <1>3 DEF TypeOK, PhaseInv, VersionInv, Busy, ReadParse
<1>4. CASE EmitFirst
  BY <1>0, <1>4 DEF VersionInv, Busy, EmitFirst
<1>5. CASE Watch
  BY <1>0, <1>5 DEF VersionInv, Busy, Watch
<1>6. CASE Shutdown
  BY <1>0, <1>6 DEF VersionInv, Busy, Shutdown
<1>7. CASE Publish
  BY <1>0, <1>7, Kinds DEF TypeOK, VersionInv, Busy, Publish
<1>8. CASE Notify
  BY <1>0, <1>8, Kinds DEF VersionInv, Busy, Notify
<1>9. ASSUME NEW v \in Versions, Parse(v) PROVE VersionInv'
  <2>1. v <= latest
    BY <1>0, <1>9 DEF VersionInv, Parse, Busy
  <2>2. \A i \in Instances : content'[i] \in {content[i], v}
    BY <1>0, <1>9, Kinds DEF TypeOK, Parse
  <2>3. \A w \in Versions : opc'[w] \in {"parsed", "stored"} => content'[w] = w
    BY <1>0, <1>9, Kinds DEF TypeOK, VersionInv, Parse
  <2> QED BY <1>0, <1>9, <2>1, <2>2, <2>3 DEF TypeOK, VersionInv, Parse, Busy
<1>10. ASSUME NEW v \in Versions, Store(v) PROVE VersionInv'
  BY <1>0, <1>10 DEF VersionInv, Busy, Store
<1>11. ASSUME NEW v \in Versions, Emit(v) PROVE VersionInv'
  BY <1>0, <1>11 DEF VersionInv, Busy, Emit
<1>12. ASSUME NEW s \in Setters, SetLoad(s) PROVE VersionInv'
  BY <1>0, <1>12 DEF VersionInv, Busy, SetLoad
<1>13. ASSUME NEW s \in Setters, SetWrite(s) PROVE VersionInv'
  BY <1>0, <1>13 DEF VersionInv, Busy, SetWrite
<1>14. ASSUME NEW r \in Readers, GetLoad(r) PROVE VersionInv'
  BY <1>0, <1>14 DEF VersionInv, Busy, GetLoad
<1>15. ASSUME NEW r \in Readers, GetRead(r) PROVE VersionInv'
  BY <1>0, <1>15 DEF VersionInv, Busy, GetRead
<1>16. CASE MapRace
  BY <1>0, <1>16 DEF VersionInv, Busy, MapRace
<1>17. CASE UNCHANGED vars
  BY <1>0, <1>17 DEF VersionInv, Busy, vars
<1> QED BY <1>1, <1>2, <1>3, <1>4, <1>5, <1>6, <1>7, <1>8, <1>9, <1>10, <1>11, <1>12, <1>13, <1>14, <1>15, <1>16, <1>17 DEF Next

\* Every step keeps what getters and setters hold.
LEMMA UseStep ==
  ASSUME Inv, [Next]_vars
  PROVE  UseInv'
<1> USE DEF serverVars, createVars, setVars, readVars
<1>0. TypeOK /\ PhaseInv /\ VersionInv /\ UseInv
  BY DEF Inv
<1>1. CASE Create
  BY <1>0, <1>1 DEF UseInv, Created, Create
<1>2. CASE ReadFetch
  BY <1>0, <1>2 DEF UseInv, Created, ReadFetch
<1>3. CASE ReadParse
  BY <1>0, <1>3 DEF UseInv, Created, ReadParse
<1>4. CASE EmitFirst
  BY <1>0, <1>4 DEF UseInv, Created, EmitFirst
<1>5. CASE Watch
  BY <1>0, <1>5 DEF UseInv, Created, Watch
<1>6. CASE Shutdown
  BY <1>0, <1>6 DEF UseInv, Created, Shutdown
<1>7. CASE Publish
  BY <1>0, <1>7 DEF UseInv, Created, Publish
<1>8. CASE Notify
  BY <1>0, <1>8 DEF UseInv, Created, Notify
<1>9. ASSUME NEW v \in Versions, Parse(v) PROVE UseInv'
  BY <1>0, <1>9 DEF TypeOK, UseInv, Created, Parse
<1>10. ASSUME NEW v \in Versions, Store(v) PROVE UseInv'
  BY <1>0, <1>10 DEF UseInv, Created, Store
<1>11. ASSUME NEW v \in Versions, Emit(v) PROVE UseInv'
  BY <1>0, <1>11 DEF UseInv, Created, Emit
<1>12. ASSUME NEW s \in Setters, SetLoad(s) PROVE UseInv'
  BY <1>0, <1>12 DEF TypeOK, PhaseInv, UseInv, Created, SetLoad
<1>13. ASSUME NEW s \in Setters, SetWrite(s) PROVE UseInv'
  BY <1>0, <1>13 DEF TypeOK, UseInv, Created, SetWrite
<1>14. ASSUME NEW r \in Readers, GetLoad(r) PROVE UseInv'
  BY <1>0, <1>14 DEF TypeOK, PhaseInv, UseInv, Created, GetLoad
<1>15. ASSUME NEW r \in Readers, GetRead(r) PROVE UseInv'
  BY <1>0, <1>15 DEF TypeOK, UseInv, Created, GetRead
<1>16. CASE MapRace
  BY <1>0, <1>16 DEF UseInv, Created, MapRace
<1>17. CASE UNCHANGED vars
  BY <1>0, <1>17 DEF UseInv, Created, vars
<1> QED BY <1>1, <1>2, <1>3, <1>4, <1>5, <1>6, <1>7, <1>8, <1>9, <1>10, <1>11, <1>12, <1>13, <1>14, <1>15, <1>16, <1>17 DEF Next

\* The version in use is a version or Nothing.
LEMMA CurrentType ==
  ASSUME TypeOK
  PROVE  Current \in Versions \union {Nothing} /\ Current \in Nat
BY Kinds DEF TypeOK, Current

\* Every step keeps the order, and the version in use does not go back.
LEMMA OrderStep ==
  ASSUME Inv, [Next]_vars
  PROVE  OrderInv' /\ (Current' >= Current \/ overlapped)
<1> USE DEF serverVars, createVars, setVars, readVars
<1>0. TypeOK /\ PhaseInv /\ VersionInv /\ UseInv /\ OrderInv
  BY DEF Inv
<1> DEFINE Goal == OrderInv' /\ (Current' >= Current \/ overlapped)
<1>1. CASE Create
  <2>1. /\ Current = Nothing /\ announced = Nothing
        /\ \A r \in Readers : rpc[r] # "loaded"
        /\ \A v \in Versions : opc[v] = "none"
    BY <1>0, <1>1 DEF PhaseInv, UseInv, Created, Create, Current
  <2>2. Current' = Nothing
    BY <1>0, <1>1 DEF PhaseInv, Create, Current, Fail
  <2>3. UNCHANGED <<announced, rpc, rptr, since, opc, content, overlapped>>
    BY <1>1 DEF Create
  <2>4. OrderInv'
    BY <2>1, <2>2, <2>3, Kinds DEF OrderInv, Busy
  <2>5. Current' >= Current
    BY <2>1, <2>2, Kinds
  <2> QED BY <2>4, <2>5
<1>2. CASE ReadFetch
  BY <1>0, <1>2, CurrentType DEF OrderInv, Current, Busy, ReadFetch
<1>3. CASE ReadParse
  <2>1. /\ Current = Nothing /\ announced = Nothing /\ config = First
        /\ \A r \in Readers : rpc[r] # "loaded"
        /\ \A v \in Versions : opc[v] = "none"
    BY <1>0, <1>3, Kinds DEF PhaseInv, UseInv, Created, ReadParse, Current
  <2>2. Current' \in Nat
    <3>1. config' = First /\ First # Nil
      BY <1>3, <2>1, Kinds DEF ReadParse
    <3>2. content[First] \in Nat /\ got \in Nat
      <4>1. content[First] \in Versions \union {Nothing} /\ got \in Versions \union {Nothing}
        BY <1>0, Kinds DEF TypeOK
      <4> QED BY <4>1, Kinds
    <3>3. content'[First] \in {content[First], got}
      BY <1>0, <1>3, <2>1, Kinds DEF TypeOK, ReadParse
    <3> QED BY <3>1, <3>2, <3>3 DEF Current
  <2>3. UNCHANGED <<announced, rpc, opc, overlapped>>
    BY <1>3 DEF ReadParse
  <2>4. OrderInv'
    BY <2>1, <2>2, <2>3, Kinds DEF OrderInv, Busy
  <2>5. Current' >= Current
    BY <2>1, <2>2, Kinds
  <2> QED BY <2>4, <2>5
<1>4. CASE EmitFirst
  BY <1>0, <1>4, CurrentType DEF PhaseInv, OrderInv, Current, Busy, EmitFirst
<1>5. CASE Watch
  BY <1>0, <1>5, CurrentType DEF OrderInv, Current, Busy, Watch
<1>6. CASE Shutdown
  BY <1>0, <1>6, CurrentType DEF OrderInv, Current, Busy, Shutdown
<1>7. CASE Publish
  BY <1>0, <1>7, CurrentType DEF OrderInv, Current, Busy, Publish
<1>8. CASE Notify
  <2>1. UNCHANGED <<config, content, announced, rpc, rptr, since>> /\ Current' = Current
    BY <1>8 DEF Notify, Current
  <2>2. Current \in Nat /\ latest \in Versions /\ opc' = [opc EXCEPT ![latest] = "called"]
    BY <1>0, <1>8, CurrentType DEF TypeOK, Notify
  <2>3. Current <= latest
    BY <1>0, Kinds DEF TypeOK, VersionInv, Current
  <2>4. CASE overlapped'
    BY <2>1, <2>2, <2>4 DEF OrderInv
  <2>5. CASE ~overlapped'
    <3>1. ~overlapped /\ \A v \in Versions : ~Busy(v)
      BY <1>8, <2>5 DEF Notify
    <3>2. \A v \in Versions : Busy(v)' => v = latest /\ opc'[v] # "stored"
      BY <1>0, <2>2, <3>1 DEF TypeOK, Busy
    <3> QED BY <1>0, <2>1, <2>2, <2>3, <2>5, <3>1, <3>2 DEF OrderInv, Busy
  <2> QED BY <2>4, <2>5
<1>9. ASSUME NEW v \in Versions, Parse(v) PROVE Goal
  BY <1>0, <1>9, Kinds DEF TypeOK, UseInv, OrderInv, Current, Busy, Parse
<1>10. ASSUME NEW v \in Versions, Store(v) PROVE Goal
  <2>1. config' = v /\ UNCHANGED <<content, announced, rpc, rptr, since, overlapped>> /\ Busy(v)
    BY <1>10 DEF Store, Busy
  <2>2. Current' = v /\ v \in Nat /\ Current \in Nat /\ announced \in Nat
    BY <1>0, <1>10, <2>1, Kinds, CurrentType DEF TypeOK, VersionInv, Store, Current
  <2>3. \A w \in Versions : Busy(w)' => Busy(w)
    BY <1>0, <1>10 DEF TypeOK, Store, Busy
  <2>4. \A w \in Versions : opc'[w] = "stored" => opc[w] = "stored" \/ w = v
    BY <1>0, <1>10 DEF TypeOK, Store
  <2>5. CASE overlapped
    BY <2>1, <2>5 DEF OrderInv
  <2>6. CASE ~overlapped
    <3>1. Current <= v /\ announced <= Current /\ \A w \in Versions : Busy(w) => w = v
      BY <1>0, <2>1, <2>6 DEF OrderInv
    <3>2. \A w \in Versions : Busy(w)' => w = v
      BY <2>3, <3>1
    <3>3. \A w \in Versions : opc'[w] = "stored" => config' = w
      BY <2>1, <3>2 DEF Busy
    <3>4. announced' <= Current' /\ Current' >= Current
      BY <2>1, <2>2, <3>1
    <3>5. \A r \in Readers : rpc'[r] = "loaded" => since'[r] <= content'[rptr'[r]]
      BY <1>0, <2>1, <2>6 DEF OrderInv
    <3> QED BY <2>2, <3>2, <3>3, <3>4, <3>5 DEF OrderInv
  <2> QED BY <2>5, <2>6
<1>11. ASSUME NEW v \in Versions, Emit(v) PROVE Goal
  BY <1>0, <1>11, Kinds, CurrentType DEF OrderInv, Current, Busy, Emit
<1>12. ASSUME NEW s \in Setters, SetLoad(s) PROVE Goal
  BY <1>0, <1>12, CurrentType DEF OrderInv, Current, Busy, SetLoad
<1>13. ASSUME NEW s \in Setters, SetWrite(s) PROVE Goal
  BY <1>0, <1>13, CurrentType DEF OrderInv, Current, Busy, SetWrite
<1>14. ASSUME NEW r \in Readers, GetLoad(r) PROVE Goal
  BY <1>0, <1>14, CurrentType DEF TypeOK, PhaseInv, OrderInv, Current, Busy, GetLoad
<1>15. ASSUME NEW r \in Readers, GetRead(r) PROVE Goal
  BY <1>0, <1>15, CurrentType DEF TypeOK, OrderInv, Current, Busy, GetRead
<1>16. CASE MapRace
  BY <1>0, <1>16, CurrentType DEF OrderInv, Current, Busy, MapRace
<1>17. CASE UNCHANGED vars
  BY <1>0, <1>17, CurrentType DEF OrderInv, Current, Busy, vars
<1> QED BY <1>1, <1>2, <1>3, <1>4, <1>5, <1>6, <1>7, <1>8, <1>9, <1>10, <1>11, <1>12, <1>13, <1>14, <1>15, <1>16, <1>17 DEF Next

-----------------------------------------------------------------------------
(* The theorems.                                                            *)

\* Nothing has been made, read or announced at the start.
LEMMA Initially ==
  ASSUME Init
  PROVE  Inv
<1>1. TypeOK
  <2>1. 1 \in Versions
    BY NacosAssumption DEF Versions
  <2> QED BY <2>1, Kinds DEF Init, TypeOK
<1>2. PhaseInv /\ UseInv
  BY Kinds DEF Init, PhaseInv, UseInv, Created
<1>3. VersionInv
  BY Kinds DEF Init, VersionInv, Busy
<1>4. OrderInv
  BY Kinds DEF Init, OrderInv, Busy, Current
<1> QED BY <1>1, <1>2, <1>3, <1>4 DEF Inv

\* The invariant holds in every state.
THEOREM Invariance == Spec => []Inv
<1>1. Init => Inv
  BY Initially
<1>2. Inv /\ [Next]_vars => Inv'
  BY TypeStep, PhaseStep, VersionStep, UseStep, OrderStep DEF Inv
<1> QED BY <1>1, <1>2, PTL DEF Spec

\* Every variable keeps its type; an instance of OnChange holds its own version or nothing.
THEOREM TypeCorrect == Spec => []TypeOK
<1>1. Inv => TypeOK
  BY DEF Inv
<1> QED BY <1>1, Invariance, PTL

\* A getter never works on an instance that is still to be read.
THEOREM ReadsAreComplete == Spec => []ReadsComplete
<1>1. Inv => ReadsComplete
  BY DEF Inv, UseInv, ReadsComplete
<1> QED BY <1>1, Invariance, PTL

\* Who reads after an event finds its version or a later one, unless calls of OnChange have
\* overlapped.
THEOREM EventsAreNotAhead == Spec => []ReadsAreFresh
<1>1. Inv => ReadsAreFresh
  <2> SUFFICES ASSUME Inv, ~overlapped, NEW r \in Readers, rpc[r] = "loaded"
               PROVE  content[rptr[r]] >= since[r]
    BY DEF ReadsAreFresh
  <2>1. since[r] <= content[rptr[r]]
    BY DEF Inv, OrderInv
  <2> QED BY <2>1
<1> QED BY <1>1, Invariance, PTL

\* What Set and SetBaseConfig wrote stays in the instance they wrote it to.
THEOREM SetsAreKept == Spec => []SetsStay
<1>1. Inv => SetsStay
  BY DEF Inv, UseInv, SetsStay
<1> QED BY <1>1, Invariance, PTL

\* The version in use never goes back, unless calls of OnChange overlap.
THEOREM CurrentNeverGoesBack == Spec => NeverGoesBack
<1>1. Inv /\ [Next]_vars => [Current' >= Current \/ overlapped]_vars
  BY OrderStep
<1> QED BY <1>1, Invariance, PTL DEF Spec, NeverGoesBack

-----------------------------------------------------------------------------
(* Nothing is missed: what of LatestIsUsed does not depend on fairness.     *)

\* What the SDK has told of is in use or on its way there, unless it cannot be parsed; and
\* Watch begins with what Read fetched, or with nothing.
KnownInv ==
  /\ pc \in {"read", "emitted"} => content[First] = got
  /\ ~Created => known = Nothing
  /\ overlapped \/ /\ \A v \in Versions : Busy(v) => v = known
                   /\ known \in Versions \ Bad =>
                        Current = known \/ opc[known] \in {"called", "parsed"}

\* When the SDK has nothing to tell of and no call of OnChange is under way, the server's
\* version is in use, also one published between Read and Watch, unless it cannot be parsed
\* or calls have overlapped.
LatestIsInUse ==
  ~overlapped /\ known = latest /\ latest \notin Bad /\ (\A v \in Versions : ~Busy(v)) =>
    Current = latest

\* Every step keeps it.
LEMMA KnownStep ==
  ASSUME Inv, KnownInv, [Next]_vars
  PROVE  KnownInv'
<1> USE DEF serverVars, createVars, setVars, readVars
<1>0. TypeOK /\ PhaseInv /\ VersionInv /\ OrderInv /\ KnownInv
  BY DEF Inv
<1>1. CASE Create
  BY <1>0, <1>1, Kinds DEF PhaseInv, KnownInv, Created, Busy, Create, Fail
<1>2. CASE ReadFetch
  BY <1>0, <1>2, Kinds DEF PhaseInv, KnownInv, Created, Busy, ReadFetch, Fail
<1>3. CASE ReadParse
  <2>1. config = First /\ known = Nothing /\ \A v \in Versions : opc[v] = "none"
    BY <1>0, <1>3 DEF PhaseInv, KnownInv, Created, ReadParse
  <2>2. pc' \in {"read", "failed"} /\ (pc' = "read" => content'[First] = got)
    BY <1>0, <1>3, <2>1, Kinds DEF TypeOK, ReadParse, Fail
  <2> QED BY <1>3, <2>1, <2>2, Kinds DEF KnownInv, Created, Busy, ReadParse
<1>4. CASE EmitFirst
  BY <1>0, <1>4, Kinds DEF PhaseInv, KnownInv, Created, Busy, EmitFirst, Current
<1>5. CASE Watch
  <2>1. config = First /\ content[First] = got /\ known = Nothing /\ \A v \in Versions : opc[v] = "none"
    BY <1>0, <1>5 DEF PhaseInv, KnownInv, Created, Watch
  <2>2. Current' = got /\ known' \in {got, Nothing} /\ Created' /\ UNCHANGED opc
        /\ pc' \notin {"read", "emitted"}
    BY <1>5, <2>1, Kinds DEF Watch, Listen, Current, Created
  <2> QED BY <2>1, <2>2, Kinds DEF KnownInv, Busy
<1>6. CASE Shutdown
  BY <1>0, <1>6 DEF KnownInv, Created, Busy, Shutdown, Current
<1>7. CASE Publish
  BY <1>0, <1>7 DEF KnownInv, Created, Busy, Publish, Current
<1>8. CASE Notify
  <2>1. /\ Created /\ known' = latest /\ opc' = [opc EXCEPT ![latest] = "called"]
        /\ UNCHANGED <<pc, config, content>> /\ latest \in Versions
    BY <1>0, <1>8 DEF PhaseInv, TypeOK, Notify
  <2>2. opc'[latest] = "called"
    BY <1>0, <2>1 DEF TypeOK
  <2>3. overlapped' \/ \A v \in Versions : Busy(v)' => v = latest
    BY <1>0, <1>8, <2>1 DEF TypeOK, Busy, Notify
  <2> QED BY <2>1, <2>2, <2>3 DEF KnownInv, Created
<1>9. ASSUME NEW v \in Versions, Parse(v) PROVE KnownInv'
  <2>1. /\ Created /\ opc[v] = "called" /\ UNCHANGED <<pc, known, overlapped, config>>
    BY <1>0, <1>9 DEF PhaseInv, Parse
  <2>2. CASE overlapped
    BY <2>1, <2>2 DEF KnownInv, Created
  <2>3. CASE ~overlapped
    <3>1. v = known /\ (\A w \in Versions : Busy(w) => w = known)
      BY <1>0, <2>1, <2>3 DEF KnownInv, Busy
    <3>2. \A w \in Versions : Busy(w)' => w = known
      BY <1>0, <1>9, <3>1 DEF TypeOK, Parse, Busy
    <3>3. known \notin Bad => opc'[known] = "parsed"
      BY <1>0, <1>9, <3>1 DEF TypeOK, Parse
    <3> QED BY <2>1, <3>2, <3>3 DEF KnownInv, Created
  <2> QED BY <2>2, <2>3
<1>10. ASSUME NEW v \in Versions, Store(v) PROVE KnownInv'
  <2>1. /\ Created /\ opc[v] = "parsed" /\ UNCHANGED <<pc, known, overlapped, content>> /\ config' = v
    BY <1>0, <1>10 DEF PhaseInv, Store
  <2>2. Current' = v
    BY <1>0, <2>1, Kinds DEF VersionInv, Current
  <2>3. \A w \in Versions : Busy(w)' => Busy(w)
    BY <1>0, <1>10 DEF TypeOK, Store, Busy
  <2>4. overlapped \/ v = known
    BY <1>0, <2>1 DEF KnownInv, Busy
  <2> QED BY <1>0, <2>1, <2>2, <2>3, <2>4 DEF KnownInv, Created
<1>11. ASSUME NEW v \in Versions, Emit(v) PROVE KnownInv'
  <2>1. /\ Created /\ opc[v] = "stored" /\ UNCHANGED <<pc, known, overlapped, content, config>>
        /\ opc' = [opc EXCEPT ![v] = "returned"]
    BY <1>0, <1>11 DEF PhaseInv, Emit
  <2>2. \A w \in Versions : opc'[w] \in {"called", "parsed"} <=> opc[w] \in {"called", "parsed"}
    BY <1>0, <2>1 DEF TypeOK
  <2>3. \A w \in Versions : Busy(w)' => Busy(w)
    BY <1>0, <2>1 DEF TypeOK, Busy
  <2> QED BY <1>0, <2>1, <2>2, <2>3 DEF KnownInv, Created, Current
<1>12. ASSUME NEW s \in Setters, SetLoad(s) PROVE KnownInv'
  BY <1>0, <1>12 DEF KnownInv, Created, Busy, SetLoad, Current
<1>13. ASSUME NEW s \in Setters, SetWrite(s) PROVE KnownInv'
  BY <1>0, <1>13 DEF KnownInv, Created, Busy, SetWrite, Current
<1>14. ASSUME NEW r \in Readers, GetLoad(r) PROVE KnownInv'
  BY <1>0, <1>14 DEF KnownInv, Created, Busy, GetLoad, Current
<1>15. ASSUME NEW r \in Readers, GetRead(r) PROVE KnownInv'
  BY <1>0, <1>15 DEF KnownInv, Created, Busy, GetRead, Current
<1>16. CASE MapRace
  BY <1>0, <1>16 DEF KnownInv, Created, Busy, MapRace, Current
<1>17. CASE UNCHANGED vars
  BY <1>0, <1>17 DEF KnownInv, Created, Busy, vars, Current
<1> QED BY <1>1, <1>2, <1>3, <1>4, <1>5, <1>6, <1>7, <1>8, <1>9, <1>10, <1>11, <1>12, <1>13, <1>14, <1>15, <1>16, <1>17 DEF Next

\* No published version is missed: the server's version is in use when nothing is under way.
THEOREM NoVersionIsMissed == Spec => []LatestIsInUse
<1>1. Init => KnownInv
  BY Kinds DEF Init, KnownInv, Created, Busy
<1>2. Inv /\ KnownInv /\ [Next]_vars => KnownInv'
  BY KnownStep
<1>3. Inv /\ KnownInv => LatestIsInUse
  BY DEF Inv, TypeOK, KnownInv, LatestIsInUse, Busy
<1> QED BY <1>1, <1>2, <1>3, Invariance, PTL DEF Spec

=============================================================================
