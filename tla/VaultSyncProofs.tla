-------------------------- MODULE VaultSyncProofs --------------------------
(***************************************************************************)
(* What a synchronisation leaves alone, for every vault, registry, number  *)
(* of processes and peers, and whatever fails.                             *)
(***************************************************************************)
EXTENDS VaultSync, TLAPS

\* Who is about to create saw no file.
SawNone == \A p \in Procs : pc[p] = "create" => raw[p] = None

\* Who is to read a file finds one.
SeenIsThere ==
    \A p \in Procs : pc[p] \in {"reread", "load", "merge"} => file[name[p]] # None

\* Who registers or publishes has a url, and so has what it saved.
UrlKnown ==
    \A p \in Procs :
        /\ pc[p] \in {"save", "reread", "mark", "publish"} => ReceiveInfo # None
        /\ pc[p] = "reread" => file[name[p]].info # None
        /\ pc[p] = "mark" => raw[p].info # None

\* At a peer of the list, the list has a record of it.
AtListed ==
    \A p \in Procs :
        /\ pc[p] \in {"create", "load", "merge"} => listed[p][name[p]] # None
        /\ \A n \in todo[p] : listed[p][n] # None

\* A listed peer is in the vault, failed, is being written, or still to come.
Met(p, n) ==
    \/ file[n] # None
    \/ n \in failed[p]
    \/ n \in todo[p] /\ pc[p] \in {"next", "create", "load", "merge"}
    \/ n = name[p] /\ pc[p] \in {"create", "load", "merge"}

AllMet ==
    \A p \in Procs : kind[p] = "join" /\ pc[p] # "error" =>
        \A n \in Names : listed[p][n] # None => Met(p, n)

IInv == TypeOK /\ SawNone /\ SeenIsThere /\ UrlKnown /\ AtListed /\ AllMet

-----------------------------------------------------------------------------
(* What is written *)

\* No record and no identity is mistaken for None.
LEMMA NoneIsApart == None \notin Identity /\ None \notin Record /\ None \notin Infos
BY VaultAssumption

LEMMA MergedIsIdentity ==
    ASSUME NEW i \in Identity, NEW r \in Record
    PROVE  /\ Merged(i, r) \in Identity
           /\ i.key # None => Merged(i, r).key = i.key
           /\ i.platform # "" => Merged(i, r).platform = i.platform
           /\ Merged(i, r).marked = i.marked
           /\ Merged(i, r).info # None
BY NoneIsApart DEF Identity, Record, Merged

LEMMA CreatedIsIdentity ==
    ASSUME NEW r \in Record,
           NEW i, i = [key |-> r.key, info |-> r.info, platform |-> r.platform, marked |-> FALSE]
    PROVE  i \in Identity /\ i.info # None
BY NoneIsApart DEF Identity, Record

LEMMA MarkedIsIdentity ==
    ASSUME NEW j \in Identity, NEW i,
           i = [j EXCEPT !.platform = "diploid", !.marked = TRUE]
    PROVE  i \in Identity /\ i.info = j.info /\ i.key = j.key
BY DEF Identity

LEMMA ReceiveInfoType ==
    ASSUME TypeOK PROVE ReceiveInfo \in Infos \cup {None}
BY VaultAssumption DEF TypeOK, ReceiveInfo, Names, Identity

LEMMA SavedIsIdentity ==
    ASSUME TypeOK, NEW p \in Procs, NEW i,
           i = [key |-> KeyOf[p], info |-> ReceiveInfo, platform |-> "diploid", marked |-> FALSE]
    PROVE  i \in Identity /\ i.info = ReceiveInfo
BY VaultAssumption, ReceiveInfoType DEF Identity

\* What a process puts into a file is an identity with a url, and nothing else
\* changes files.
LEMMA WritesIdentities ==
    ASSUME IInv, [Next]_vars
    PROVE  \/ UNCHANGED file
           \/ \E p \in Procs, i \in Identity :
                 file' = [file EXCEPT ![name[p]] = i] /\ i.info # None
<1> DEFINE Goal == \/ UNCHANGED file
                   \/ \E p \in Procs, i \in Identity :
                         file' = [file EXCEPT ![name[p]] = i] /\ i.info # None
<1> SUFFICES Goal
  OBVIOUS
<1> USE DEF IInv, vars, disk
<1>1. ASSUME NEW p \in Procs, NEW k \in Kinds, NEW n \in Names, Ask(p, k, n) PROVE Goal
  BY <1>1 DEF Ask, First, Ended, Kinds
<1>2. ASSUME NEW p \in Procs, Save(p) PROVE Goal
  <2> DEFINE i == [key |-> KeyOf[p], info |-> ReceiveInfo, platform |-> "diploid", marked |-> FALSE]
  <2>1. i \in Identity /\ i.info # None
    BY <1>2, SavedIsIdentity DEF Save, Move, UrlKnown
  <2>2. file' = [file EXCEPT ![name[p]] = i]
    BY <1>2 DEF Save, Put
  <2> QED
    BY <2>1, <2>2
<1>3. ASSUME NEW p \in Procs, Reread(p) PROVE Goal
  BY <1>3 DEF Reread, Move
<1>4. ASSUME NEW p \in Procs, Mark(p) PROVE Goal
  <2> DEFINE i == [raw[p] EXCEPT !.platform = "diploid", !.marked = TRUE]
  <2>1. i \in Identity /\ i.info # None
    <3>1. raw[p] \in Identity /\ raw[p].info # None
      BY <1>4 DEF Mark, Move, UrlKnown, TypeOK
    <3> QED
      BY <3>1, MarkedIsIdentity
  <2>2. file' = [file EXCEPT ![name[p]] = i]
    BY <1>4 DEF Mark, Put
  <2> QED
    BY <2>1, <2>2
<1>5. ASSUME NEW p \in Procs, WriteFails(p) PROVE Goal
  BY <1>5 DEF WriteFails
<1>6. ASSUME NEW p \in Procs, Publish(p) PROVE Goal
  BY <1>6 DEF Publish, Move, Enlist
<1>7. ASSUME NEW p \in Procs, PublishRaises(p) PROVE Goal
  BY <1>7 DEF PublishRaises, Move, Enlist
<1>8. ASSUME NEW p \in Procs, Deregister(p) PROVE Goal
  BY <1>8 DEF Deregister, Move
<1>9. ASSUME NEW p \in Procs, List(p) PROVE Goal
  BY <1>9 DEF List, Move
<1>10. ASSUME NEW p \in Procs, ListFails(p) PROVE Goal
  BY <1>10 DEF ListFails, Move
<1>11. ASSUME NEW p \in Procs, NEW n \in Names, Look(p, n) PROVE Goal
  BY <1>11 DEF Look, Move
<1>12. ASSUME NEW p \in Procs, Create(p) PROVE Goal
  <2> DEFINE r == listed[p][name[p]]
             i == [key |-> r.key, info |-> r.info, platform |-> r.platform, marked |-> FALSE]
  <2>1. r \in Record
    BY <1>12 DEF Create, Move, AtListed, TypeOK
  <2>2. i \in Identity /\ i.info # None
    BY <2>1, CreatedIsIdentity
  <2>3. file' = [file EXCEPT ![name[p]] = i]
    BY <1>12 DEF Create, Put
  <2> QED
    BY <2>2, <2>3
<1>13. ASSUME NEW p \in Procs, Load(p) PROVE Goal
  BY <1>13 DEF Load, Move
<1>14. ASSUME NEW p \in Procs, Merge(p) PROVE Goal
  <2> DEFINE i == Merged(raw[p], listed[p][name[p]])
  <2>1. raw[p] \in Identity /\ listed[p][name[p]] \in Record
    BY <1>14 DEF Merge, Move, AtListed, TypeOK
  <2>2. i \in Identity /\ i.info # None
    BY <2>1, MergedIsIdentity
  <2>3. UNCHANGED file \/ file' = [file EXCEPT ![name[p]] = i]
    BY <1>14 DEF Merge, Put
  <2> QED
    BY <2>2, <2>3
<1>15. ASSUME NEW p \in Procs, PeerFails(p) PROVE Goal
  BY <1>15 DEF PeerFails
<1>16. ASSUME NEW p \in Procs, RecordFails(p) PROVE Goal
  BY <1>16 DEF RecordFails, Move
<1>17. ASSUME NEW p \in Procs, Finish(p) PROVE Goal
  BY <1>17 DEF Finish, Move
<1>18. ASSUME NEW n \in Others, News(n) PROVE Goal
  BY <1>18 DEF News
<1>19. CASE Quiet
  BY <1>19 DEF Quiet
<1>20. CASE UNCHANGED vars
  BY <1>20
<1> HIDE DEF Goal, IInv
<1> QED
  BY <1>1, <1>2, <1>3, <1>4, <1>5, <1>6, <1>7, <1>8, <1>9, <1>10,
     <1>11, <1>12, <1>13, <1>14, <1>15, <1>16, <1>17, <1>18, <1>19, <1>20,
     VaultAssumption DEF Next, Step, Names

\* So files stay, and keep having a url.
LEMMA FilesStay ==
    ASSUME IInv, [Next]_vars
    PROVE  /\ file' \in [Names -> Identity \cup {None}]
           /\ \A n \in Names : file[n] # None => file'[n] # None
           /\ \A n \in Names : file[n] # None /\ file[n].info # None => file'[n].info # None
           /\ ReceiveInfo # None => ReceiveInfo' # None
<1>1. file \in [Names -> Identity \cup {None}] /\ name \in [Procs -> Names] /\ Me \in Names
  BY DEF IInv, TypeOK, Names
<1>2. CASE UNCHANGED file
  BY <1>1, <1>2 DEF ReceiveInfo
<1>3. ASSUME NEW p \in Procs, NEW i \in Identity,
             file' = [file EXCEPT ![name[p]] = i], i.info # None
      PROVE  /\ file' \in [Names -> Identity \cup {None}]
             /\ \A n \in Names : file[n] # None => file'[n] # None
             /\ \A n \in Names : file[n] # None /\ file[n].info # None => file'[n].info # None
             /\ ReceiveInfo # None => ReceiveInfo' # None
  BY <1>1, <1>3, NoneIsApart DEF ReceiveInfo
<1> QED
  BY <1>2, <1>3, WritesIdentities

\* A file saved or created is there.
LEMMA Wrote ==
    ASSUME IInv, NEW p \in Procs, Save(p) \/ Create(p)
    PROVE  file'[name[p]] # None /\ file'[name[p]].info # None
<1>1. file \in [Names -> Identity \cup {None}] /\ name[p] \in Names
  BY DEF IInv, TypeOK
<1>2. CASE Save(p)
  <2> DEFINE i == [key |-> KeyOf[p], info |-> ReceiveInfo, platform |-> "diploid", marked |-> FALSE]
  <2>1. i \in Identity /\ i.info # None
    BY <1>2, SavedIsIdentity DEF Save, Move, UrlKnown, IInv
  <2>2. file'[name[p]] = i
    BY <1>1, <1>2 DEF Save, Put
  <2> QED
    BY <2>1, <2>2, NoneIsApart
<1>3. CASE Create(p)
  <2> DEFINE r == listed[p][name[p]]
             i == [key |-> r.key, info |-> r.info, platform |-> r.platform, marked |-> FALSE]
  <2>1. r \in Record
    BY <1>3 DEF Create, Move, AtListed, TypeOK, IInv
  <2>2. i \in Identity /\ i.info # None
    BY <2>1, CreatedIsIdentity
  <2>3. file'[name[p]] = i
    BY <1>1, <1>3 DEF Create, Put
  <2> QED
    BY <2>2, <2>3, NoneIsApart
<1> QED
  BY <1>2, <1>3

-----------------------------------------------------------------------------
(* The invariant *)

LEMMA TypePreserved ==
    ASSUME IInv, [Next]_vars
    PROVE  TypeOK'
<1>0. file' \in [Names -> Identity \cup {None}]
  BY FilesStay
<1> DEFINE Rest ==
        /\ registry' \in [Names -> Record \cup {None}]
        /\ pc' \in [Procs -> Ended \cup {"save", "reread", "mark", "publish", "deregister",
                                    "list", "next", "create", "load", "merge"}]
        /\ kind' \in [Procs -> Kinds]
        /\ name' \in [Procs -> Names]
        /\ raw' \in [Procs -> Identity \cup {None}]
        /\ listed' \in [Procs -> [Names -> Record \cup {None}]]
        /\ todo' \in [Procs -> SUBSET Names]
        /\ failed' \in [Procs -> SUBSET Names]
        /\ jobs' \in [Procs -> 0 .. MaxJobs]
        /\ news' \in 0 .. MaxNews
        /\ \A p \in Procs : pc'[p] \in {"mark", "merge"} => raw'[p] # None
<1> SUFFICES Rest
  BY <1>0 DEF TypeOK
<1> USE VaultAssumption DEF IInv, TypeOK, vars, disk, local, counts, Ended, Kinds
<1>1. ASSUME NEW p \in Procs, NEW k \in Kinds, NEW n \in Names, Ask(p, k, n) PROVE Rest
  BY <1>1 DEF Ask, First, Empty, Kinds
<1>2. ASSUME NEW p \in Procs, Save(p) PROVE Rest
  BY <1>2 DEF Save, Move, Put
<1>3. ASSUME NEW p \in Procs, Reread(p) PROVE Rest
  BY <1>3 DEF Reread, Move, SeenIsThere
<1>4. ASSUME NEW p \in Procs, Mark(p) PROVE Rest
  BY <1>4 DEF Mark, Move, Put
<1>5. ASSUME NEW p \in Procs, WriteFails(p) PROVE Rest
  BY <1>5 DEF WriteFails
<1>6. ASSUME NEW p \in Procs, Publish(p) PROVE Rest
  <2>1. ReceiveInfo \in Infos
    BY <1>6, ReceiveInfoType DEF Publish, Move, UrlKnown
  <2>2. [key |-> KeyOf[p], info |-> ReceiveInfo, platform |-> "hermes"] \in Record
    BY <2>1 DEF Record
  <2>3. registry' \in [Names -> Record \cup {None}]
    BY <1>6, <2>2 DEF Publish, Enlist
  <2> QED
    BY <1>6, <2>3 DEF Publish, Move
<1>7. ASSUME NEW p \in Procs, PublishRaises(p) PROVE Rest
  <2>1. ReceiveInfo \in Infos
    BY <1>7, ReceiveInfoType DEF PublishRaises, Move, UrlKnown
  <2>2. [key |-> KeyOf[p], info |-> ReceiveInfo, platform |-> "hermes"] \in Record
    BY <2>1 DEF Record
  <2>3. registry' \in [Names -> Record \cup {None}]
    BY <1>7, <2>2 DEF PublishRaises, Enlist
  <2> QED
    BY <1>7, <2>3 DEF PublishRaises, Move
<1>8. ASSUME NEW p \in Procs, Deregister(p) PROVE Rest
  BY <1>8 DEF Deregister, Move
<1>9. ASSUME NEW p \in Procs, List(p) PROVE Rest
  BY <1>9 DEF List, Move
<1>10. ASSUME NEW p \in Procs, ListFails(p) PROVE Rest
  BY <1>10 DEF ListFails, Move
<1>11. ASSUME NEW p \in Procs, NEW n \in Names, Look(p, n) PROVE Rest
  BY <1>11 DEF Look, Move
<1>12. ASSUME NEW p \in Procs, Create(p) PROVE Rest
  BY <1>12 DEF Create, Move, Put
<1>13. ASSUME NEW p \in Procs, Load(p) PROVE Rest
  BY <1>13 DEF Load, Move, SeenIsThere
<1>14. ASSUME NEW p \in Procs, Merge(p) PROVE Rest
  BY <1>14 DEF Merge, Move, Put
<1>15. ASSUME NEW p \in Procs, PeerFails(p) PROVE Rest
  BY <1>15 DEF PeerFails
<1>16. ASSUME NEW p \in Procs, RecordFails(p) PROVE Rest
  BY <1>16 DEF RecordFails, Move
<1>17. ASSUME NEW p \in Procs, Finish(p) PROVE Rest
  BY <1>17 DEF Finish, Move
<1>18. ASSUME NEW n \in Others, News(n) PROVE Rest
  BY <1>18 DEF News, Names
<1>19. CASE Quiet
  BY <1>19 DEF Quiet
<1>20. CASE UNCHANGED vars
  BY <1>20
<1> HIDE DEF Rest, IInv, TypeOK, Kinds
<1> QED
  BY <1>1, <1>2, <1>3, <1>4, <1>5, <1>6, <1>7, <1>8, <1>9, <1>10,
     <1>11, <1>12, <1>13, <1>14, <1>15, <1>16, <1>17, <1>18, <1>19, <1>20,
     VaultAssumption DEF Next, Step, Names

LEMMA SeenPreserved ==
    ASSUME IInv, [Next]_vars
    PROVE  SawNone' /\ SeenIsThere'
<1>0. /\ TypeOK'
      /\ \A n \in Names : file[n] # None => file'[n] # None
  BY TypePreserved, FilesStay
<1> USE <1>0 DEF IInv, TypeOK, SawNone, SeenIsThere, vars, disk, local, counts
<1>1. ASSUME NEW p \in Procs, NEW k \in Kinds, NEW n \in Names, Ask(p, k, n) PROVE SawNone' /\ SeenIsThere'
  BY <1>1 DEF Ask, First, Ended, Kinds
<1>2. ASSUME NEW p \in Procs, Save(p) PROVE SawNone' /\ SeenIsThere'
  BY <1>2, Wrote DEF Save, Move, Put
<1>3. ASSUME NEW p \in Procs, Reread(p) PROVE SawNone' /\ SeenIsThere'
  BY <1>3 DEF Reread, Move
<1>4. ASSUME NEW p \in Procs, Mark(p) PROVE SawNone' /\ SeenIsThere'
  BY <1>4 DEF Mark, Move, Put
<1>5. ASSUME NEW p \in Procs, WriteFails(p) PROVE SawNone' /\ SeenIsThere'
  BY <1>5 DEF WriteFails
<1>6. ASSUME NEW p \in Procs, Publish(p) PROVE SawNone' /\ SeenIsThere'
  BY <1>6 DEF Publish, Move, Enlist
<1>7. ASSUME NEW p \in Procs, PublishRaises(p) PROVE SawNone' /\ SeenIsThere'
  BY <1>7 DEF PublishRaises, Move, Enlist
<1>8. ASSUME NEW p \in Procs, Deregister(p) PROVE SawNone' /\ SeenIsThere'
  BY <1>8 DEF Deregister, Move
<1>9. ASSUME NEW p \in Procs, List(p) PROVE SawNone' /\ SeenIsThere'
  BY <1>9 DEF List, Move
<1>10. ASSUME NEW p \in Procs, ListFails(p) PROVE SawNone' /\ SeenIsThere'
  BY <1>10 DEF ListFails, Move
<1>11. ASSUME NEW p \in Procs, NEW n \in Names, Look(p, n) PROVE SawNone' /\ SeenIsThere'
  BY <1>11 DEF Look, Move
<1>12. ASSUME NEW p \in Procs, Create(p) PROVE SawNone' /\ SeenIsThere'
  BY <1>12, Wrote DEF Create, Move, Put
<1>13. ASSUME NEW p \in Procs, Load(p) PROVE SawNone' /\ SeenIsThere'
  BY <1>13 DEF Load, Move
<1>14. ASSUME NEW p \in Procs, Merge(p) PROVE SawNone' /\ SeenIsThere'
  BY <1>14 DEF Merge, Move, Put
<1>15. ASSUME NEW p \in Procs, PeerFails(p) PROVE SawNone' /\ SeenIsThere'
  BY <1>15 DEF PeerFails
<1>16. ASSUME NEW p \in Procs, RecordFails(p) PROVE SawNone' /\ SeenIsThere'
  BY <1>16 DEF RecordFails, Move
<1>17. ASSUME NEW p \in Procs, Finish(p) PROVE SawNone' /\ SeenIsThere'
  BY <1>17 DEF Finish, Move
<1>18. ASSUME NEW n \in Others, News(n) PROVE SawNone' /\ SeenIsThere'
  BY <1>18 DEF News
<1>19. CASE Quiet
  BY <1>19 DEF Quiet
<1>20. CASE UNCHANGED vars
  BY <1>20
<1> HIDE DEF IInv, TypeOK
<1> QED
  BY <1>1, <1>2, <1>3, <1>4, <1>5, <1>6, <1>7, <1>8, <1>9, <1>10,
     <1>11, <1>12, <1>13, <1>14, <1>15, <1>16, <1>17, <1>18, <1>19, <1>20,
     VaultAssumption DEF Next, Step, Names

LEMMA UrlPreserved ==
    ASSUME IInv, [Next]_vars
    PROVE  UrlKnown'
<1>0. /\ TypeOK'
      /\ \A n \in Names : file[n] # None => file'[n] # None
      /\ \A n \in Names : file[n] # None /\ file[n].info # None => file'[n].info # None
      /\ ReceiveInfo # None => ReceiveInfo' # None
  BY TypePreserved, FilesStay
<1> USE <1>0 DEF IInv, TypeOK, UrlKnown, vars, disk, local, counts
<1>1. ASSUME NEW p \in Procs, NEW k \in Kinds, NEW n \in Names, Ask(p, k, n) PROVE UrlKnown'
  BY <1>1 DEF Ask, First, Ended, Kinds, Empty
<1>2. ASSUME NEW p \in Procs, Save(p) PROVE UrlKnown'
  BY <1>2, Wrote DEF Save, Move, Put
<1>3. ASSUME NEW p \in Procs, Reread(p) PROVE UrlKnown'
  BY <1>3 DEF Reread, Move
<1>4. ASSUME NEW p \in Procs, Mark(p) PROVE UrlKnown'
  BY <1>4 DEF Mark, Move, Put
<1>5. ASSUME NEW p \in Procs, WriteFails(p) PROVE UrlKnown'
  BY <1>5 DEF WriteFails
<1>6. ASSUME NEW p \in Procs, Publish(p) PROVE UrlKnown'
  BY <1>6 DEF Publish, Move, Enlist
<1>7. ASSUME NEW p \in Procs, PublishRaises(p) PROVE UrlKnown'
  BY <1>7 DEF PublishRaises, Move, Enlist
<1>8. ASSUME NEW p \in Procs, Deregister(p) PROVE UrlKnown'
  BY <1>8 DEF Deregister, Move
<1>9. ASSUME NEW p \in Procs, List(p) PROVE UrlKnown'
  BY <1>9 DEF List, Move
<1>10. ASSUME NEW p \in Procs, ListFails(p) PROVE UrlKnown'
  BY <1>10 DEF ListFails, Move
<1>11. ASSUME NEW p \in Procs, NEW n \in Names, Look(p, n) PROVE UrlKnown'
  BY <1>11 DEF Look, Move
<1>12. ASSUME NEW p \in Procs, Create(p) PROVE UrlKnown'
  <2>1. file'[name[p]] # None /\ file'[name[p]].info # None
    BY <1>12, Wrote
  <2>2. pc[p] = "create" /\ pc' = [pc EXCEPT ![p] = "next"] /\ UNCHANGED <<local, counts>>
    BY <1>12 DEF Create, Move
  <2> QED
    BY <2>1, <2>2 DEF SeenIsThere
<1>13. ASSUME NEW p \in Procs, Load(p) PROVE UrlKnown'
  BY <1>13 DEF Load, Move
<1>14. ASSUME NEW p \in Procs, Merge(p) PROVE UrlKnown'
  BY <1>14 DEF Merge, Move, SeenIsThere
<1>15. ASSUME NEW p \in Procs, PeerFails(p) PROVE UrlKnown'
  BY <1>15 DEF PeerFails
<1>16. ASSUME NEW p \in Procs, RecordFails(p) PROVE UrlKnown'
  BY <1>16 DEF RecordFails, Move
<1>17. ASSUME NEW p \in Procs, Finish(p) PROVE UrlKnown'
  BY <1>17 DEF Finish, Move
<1>18. ASSUME NEW n \in Others, News(n) PROVE UrlKnown'
  BY <1>18 DEF News
<1>19. CASE Quiet
  BY <1>19 DEF Quiet
<1>20. CASE UNCHANGED vars
  BY <1>20
<1> HIDE DEF IInv, TypeOK
<1> QED
  BY <1>1, <1>2, <1>3, <1>4, <1>5, <1>6, <1>7, <1>8, <1>9, <1>10,
     <1>11, <1>12, <1>13, <1>14, <1>15, <1>16, <1>17, <1>18, <1>19, <1>20,
     VaultAssumption DEF Next, Step, Names

LEMMA ListedPreserved ==
    ASSUME IInv, [Next]_vars
    PROVE  AtListed'
<1>0. /\ TypeOK'
      /\ \A n \in Names : file[n] # None => file'[n] # None
  BY TypePreserved, FilesStay
<1> USE <1>0 DEF IInv, TypeOK, AtListed, vars, disk, local, counts
<1>1. ASSUME NEW p \in Procs, NEW k \in Kinds, NEW n \in Names, Ask(p, k, n) PROVE AtListed'
  BY <1>1 DEF Ask, First, Ended, Kinds
<1>2. ASSUME NEW p \in Procs, Save(p) PROVE AtListed'
  BY <1>2, Wrote DEF Save, Move, Put
<1>3. ASSUME NEW p \in Procs, Reread(p) PROVE AtListed'
  BY <1>3 DEF Reread, Move
<1>4. ASSUME NEW p \in Procs, Mark(p) PROVE AtListed'
  BY <1>4 DEF Mark, Move, Put
<1>5. ASSUME NEW p \in Procs, WriteFails(p) PROVE AtListed'
  BY <1>5 DEF WriteFails
<1>6. ASSUME NEW p \in Procs, Publish(p) PROVE AtListed'
  BY <1>6 DEF Publish, Move, Enlist
<1>7. ASSUME NEW p \in Procs, PublishRaises(p) PROVE AtListed'
  BY <1>7 DEF PublishRaises, Move, Enlist
<1>8. ASSUME NEW p \in Procs, Deregister(p) PROVE AtListed'
  BY <1>8 DEF Deregister, Move
<1>9. ASSUME NEW p \in Procs, List(p) PROVE AtListed'
  BY <1>9 DEF List, Move
<1>10. ASSUME NEW p \in Procs, ListFails(p) PROVE AtListed'
  BY <1>10 DEF ListFails, Move
<1>11. ASSUME NEW p \in Procs, NEW n \in Names, Look(p, n) PROVE AtListed'
  BY <1>11 DEF Look, Move
<1>12. ASSUME NEW p \in Procs, Create(p) PROVE AtListed'
  BY <1>12, Wrote DEF Create, Move, Put
<1>13. ASSUME NEW p \in Procs, Load(p) PROVE AtListed'
  BY <1>13 DEF Load, Move
<1>14. ASSUME NEW p \in Procs, Merge(p) PROVE AtListed'
  BY <1>14 DEF Merge, Move, Put
<1>15. ASSUME NEW p \in Procs, PeerFails(p) PROVE AtListed'
  BY <1>15 DEF PeerFails
<1>16. ASSUME NEW p \in Procs, RecordFails(p) PROVE AtListed'
  BY <1>16 DEF RecordFails, Move
<1>17. ASSUME NEW p \in Procs, Finish(p) PROVE AtListed'
  BY <1>17 DEF Finish, Move
<1>18. ASSUME NEW n \in Others, News(n) PROVE AtListed'
  BY <1>18 DEF News
<1>19. CASE Quiet
  BY <1>19 DEF Quiet
<1>20. CASE UNCHANGED vars
  BY <1>20
<1> HIDE DEF IInv, TypeOK
<1> QED
  BY <1>1, <1>2, <1>3, <1>4, <1>5, <1>6, <1>7, <1>8, <1>9, <1>10,
     <1>11, <1>12, <1>13, <1>14, <1>15, <1>16, <1>17, <1>18, <1>19, <1>20,
     VaultAssumption DEF Next, Step, Names

LEMMA MetPreserved ==
    ASSUME IInv, [Next]_vars
    PROVE  AllMet'
<1>0. /\ TypeOK'
      /\ \A n \in Names : file[n] # None => file'[n] # None
  BY TypePreserved, FilesStay
<1> USE <1>0 DEF IInv, TypeOK, AllMet, Met, vars, disk, local, counts
<1>1. ASSUME NEW p \in Procs, NEW k \in Kinds, NEW n \in Names, Ask(p, k, n) PROVE AllMet'
  BY <1>1 DEF Ask, First, Ended, Kinds, Empty
<1>2. ASSUME NEW p \in Procs, Save(p) PROVE AllMet'
  BY <1>2, Wrote DEF Save, Move, Put
<1>3. ASSUME NEW p \in Procs, Reread(p) PROVE AllMet'
  BY <1>3 DEF Reread, Move
<1>4. ASSUME NEW p \in Procs, Mark(p) PROVE AllMet'
  BY <1>4 DEF Mark, Move, Put
<1>5. ASSUME NEW p \in Procs, WriteFails(p) PROVE AllMet'
  BY <1>5 DEF WriteFails
<1>6. ASSUME NEW p \in Procs, Publish(p) PROVE AllMet'
  BY <1>6 DEF Publish, Move, Enlist
<1>7. ASSUME NEW p \in Procs, PublishRaises(p) PROVE AllMet'
  BY <1>7 DEF PublishRaises, Move, Enlist
<1>8. ASSUME NEW p \in Procs, Deregister(p) PROVE AllMet'
  BY <1>8 DEF Deregister, Move
<1>9. ASSUME NEW p \in Procs, List(p) PROVE AllMet'
  BY <1>9 DEF List, Move
<1>10. ASSUME NEW p \in Procs, ListFails(p) PROVE AllMet'
  BY <1>10 DEF ListFails, Move
<1>11. ASSUME NEW p \in Procs, NEW n \in Names, Look(p, n) PROVE AllMet'
  BY <1>11 DEF Look, Move
<1>12. ASSUME NEW p \in Procs, Create(p) PROVE AllMet'
  <2>1. file'[name[p]] # None /\ file'[name[p]].info # None
    BY <1>12, Wrote
  <2>2. pc[p] = "create" /\ pc' = [pc EXCEPT ![p] = "next"] /\ UNCHANGED <<local, counts>>
    BY <1>12 DEF Create, Move
  <2> QED
    BY <2>1, <2>2 DEF SeenIsThere
<1>13. ASSUME NEW p \in Procs, Load(p) PROVE AllMet'
  BY <1>13 DEF Load, Move
<1>14. ASSUME NEW p \in Procs, Merge(p) PROVE AllMet'
  BY <1>14 DEF Merge, Move, SeenIsThere
<1>15. ASSUME NEW p \in Procs, PeerFails(p) PROVE AllMet'
  BY <1>15 DEF PeerFails
<1>16. ASSUME NEW p \in Procs, RecordFails(p) PROVE AllMet'
  BY <1>16 DEF RecordFails, Move
<1>17. ASSUME NEW p \in Procs, Finish(p) PROVE AllMet'
  BY <1>17 DEF Finish, Move
<1>18. ASSUME NEW n \in Others, News(n) PROVE AllMet'
  BY <1>18 DEF News
<1>19. CASE Quiet
  BY <1>19 DEF Quiet
<1>20. CASE UNCHANGED vars
  BY <1>20
<1> HIDE DEF IInv, TypeOK
<1> QED
  BY <1>1, <1>2, <1>3, <1>4, <1>5, <1>6, <1>7, <1>8, <1>9, <1>10,
     <1>11, <1>12, <1>13, <1>14, <1>15, <1>16, <1>17, <1>18, <1>19, <1>20,
     VaultAssumption DEF Next, Step, Names

LEMMA Inductive == Spec => []IInv
<1>1. Init => IInv
  BY VaultAssumption DEF Init, IInv, TypeOK, SawNone, SeenIsThere, UrlKnown, AtListed, AllMet,
     Met, Names, Kinds, Ended, Empty
<1>2. IInv /\ [Next]_vars => IInv'
  BY TypePreserved, SeenPreserved, UrlPreserved, ListedPreserved, MetPreserved DEF IInv
<1> QED
  BY <1>1, <1>2, PTL DEF Spec

-----------------------------------------------------------------------------
\* The vault's types, for any vault and any processes; in particular who is to
\* merge has read an identity (_merge_identity).
THEOREM TypeCorrect == Spec => []TypeOK
BY Inductive, PTL DEF IInv

\* A join that was answered has met every peer of the list, whatever failed on
\* the way (sync_to_vault).
THEOREM JoinIsComplete == Spec => []JoinMeetsAll
<1>1. IInv => JoinMeetsAll
  BY DEF IInv, AllMet, Met, JoinMeetsAll
<1> QED
  BY Inductive, <1>1, PTL

\* What a step that did not cross another leaves alone.
Spared(p) ==
    pc'[p] # pc[p] /\ ~Crossed(p) =>
        \A n \in Names :
            /\ TakesKey(n) => pc[p] = "save"
            /\ TakesTag(n) => pc[p] \in {"save", "mark"}
            /\ TakesMarkers(n) => pc[p] = "save"

\* Marking and merging an identity that is still the one that was read.
LEMMA MarkSpares ==
    ASSUME IInv, NEW p \in Procs, Mark(p) PROVE Spared(p)
<1> DEFINE i == [raw[p] EXCEPT !.platform = "diploid", !.marked = TRUE]
<1>1. raw[p] \in Identity /\ pc[p] = "mark"
  BY DEF Mark, Move, IInv, TypeOK
<1>2. i.key = raw[p].key /\ i.marked
  BY <1>1 DEF Identity
<1>3. file' = [file EXCEPT ![name[p]] = i] /\ file \in [Names -> Identity \cup {None}]
  BY DEF Mark, Put, IInv, TypeOK
<1> HIDE DEF i
<1> QED
  BY <1>1, <1>2, <1>3 DEF Spared, Crossed, TakesKey, TakesTag, TakesMarkers

LEMMA MergeSpares ==
    ASSUME IInv, NEW p \in Procs, Merge(p) PROVE Spared(p)
<1> DEFINE i == Merged(raw[p], listed[p][name[p]])
<1>1. raw[p] \in Identity /\ listed[p][name[p]] \in Record
  BY DEF Merge, Move, IInv, AtListed, TypeOK
<1>2. /\ raw[p].key # None => i.key = raw[p].key
      /\ raw[p].platform # "" => i.platform = raw[p].platform
      /\ i.marked = raw[p].marked
  BY <1>1, MergedIsIdentity
<1>3. file' = [file EXCEPT ![name[p]] = i] \/ file' = file
  BY DEF Merge, Put
<1>4. file \in [Names -> Identity \cup {None}]
  BY DEF IInv, TypeOK
<1> HIDE DEF i
<1> QED
  BY <1>2, <1>3, <1>4 DEF Spared, Crossed, TakesKey, TakesTag, TakesMarkers

LEMMA CreateSpares ==
    ASSUME IInv, NEW p \in Procs, Create(p) PROVE Spared(p)
<1>1. raw[p] = None /\ file \in [Names -> Identity \cup {None}] /\ name[p] \in Names
  BY DEF Create, Move, IInv, SawNone, TypeOK
<1>2. PICK i : file' = [file EXCEPT ![name[p]] = i]
  BY DEF Create, Put
<1> QED
  BY <1>1, <1>2 DEF Spared, Crossed, TakesKey, TakesTag, TakesMarkers

LEMMA SaveSpares ==
    ASSUME IInv, NEW p \in Procs, Save(p) PROVE Spared(p)
BY DEF Save, Move, Spared

\* Who does not write spares everything.
LEMMA OthersSpare ==
    ASSUME NEW p \in Procs, UNCHANGED file \/ pc'[p] = pc[p] PROVE Spared(p)
BY DEF Spared, TakesKey, TakesTag, TakesMarkers

LEMMA StepSpares ==
    ASSUME IInv, [Next]_vars, NEW p \in Procs
    PROVE  Spared(p)
<1>0. pc \in [Procs -> Ended \cup {"save", "reread", "mark", "publish", "deregister",
                                 "list", "next", "create", "load", "merge"}]
  BY DEF IInv, TypeOK
<1>1. CASE UNCHANGED file
  BY <1>1, OthersSpare
<1>2. ASSUME NEW q \in Procs, Save(q) \/ Mark(q) \/ Create(q) \/ Merge(q) PROVE Spared(p)
  <2>1. CASE q = p
    BY <1>2, <2>1, SaveSpares, MarkSpares, CreateSpares, MergeSpares
  <2>2. CASE q # p
    <3>1. pc'[p] = pc[p]
      BY <1>0, <1>2, <2>2 DEF Save, Mark, Create, Merge, Move
    <3> QED
      BY <3>1, OthersSpare
  <2> QED
    BY <2>1, <2>2
<1>3. UNCHANGED file \/ \E q \in Procs : Save(q) \/ Mark(q) \/ Create(q) \/ Merge(q)
  <2> USE DEF vars, disk
  <2>1. ASSUME NEW q \in Procs, NEW k, NEW n, Ask(q, k, n) PROVE UNCHANGED file
    BY <2>1 DEF Ask
  <2>2. ASSUME NEW q \in Procs, NEW n \in Names, Look(q, n) PROVE UNCHANGED file
    BY <2>2 DEF Look
  <2>3. ASSUME NEW q \in Procs,
               \/ Reread(q) \/ WriteFails(q) \/ Publish(q) \/ PublishRaises(q)
               \/ Deregister(q) \/ List(q)
               \/ ListFails(q) \/ Load(q) \/ PeerFails(q) \/ RecordFails(q) \/ Finish(q)
        PROVE  UNCHANGED file
    BY <2>3 DEF Reread, WriteFails, Publish, PublishRaises, Deregister, List, ListFails,
       Load, PeerFails, RecordFails, Finish
  <2>4. ASSUME NEW n, News(n) PROVE UNCHANGED file
    BY <2>4 DEF News
  <2>5. CASE Quiet \/ UNCHANGED vars
    BY <2>5 DEF Quiet
  <2> QED
    BY <2>1, <2>2, <2>3, <2>4, <2>5 DEF Next, Step
<1> QED
  BY <1>1, <1>2, <1>3

\* However many processes synchronise, whatever the registry says: a key, a tag
\* or a marker is only taken from an identity by registering it, or by a write
\* that crossed another process's (register_local, sync_to_vault).
THEOREM LocalFactsKept == Spec => OnlyCrossingTakes
<1>1. IInv /\ [Next]_vars => \A p \in Procs : Spared(p)
  BY StepSpares
<1>2. IInv /\ [Next]_vars =>
        [\A p \in Procs : pc'[p] # pc[p] /\ ~Crossed(p) =>
          \A n \in Names :
             /\ TakesKey(n) => pc[p] = "save"
             /\ TakesTag(n) => pc[p] \in {"save", "mark"}
             /\ TakesMarkers(n) => pc[p] = "save"]_vars
  BY <1>1 DEF Spared
<1> QED
  BY Inductive, <1>2, PTL DEF Spec, OnlyCrossingTakes
=============================================================================
