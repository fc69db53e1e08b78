------------------------ MODULE DatabaseSecurityProofs ------------------------
(***************************************************************************)
(* Proofs about DatabaseSecurity, for any rows and fingerprints and any    *)
(* number of calls, failures and crashes.                                  *)
(*                                                                         *)
(* The invariant says, for each place encrypt_db() can be at, what is in   *)
(* the three files.  As a call may fail or stop anywhere, the next one     *)
(* starts from any of these.                                               *)
(***************************************************************************)
EXTENDS DatabaseSecurity, TLAPS

\* encrypt_db() has written the wrap file.
Wrapped == Stages \ {"idle", "truncate", "write"}

\* One encrypt_db() at a time, and not on an open database.
EncryptsAlone ==
  /\ pc # "idle" => handle = NoKey /\ mk \in Keys
  /\ returned \in {"true", "noticed"} => pc = "idle"

\* What the wrap file holds at each place.
WrapAtPlace ==
  /\ pc \in Wrapped => wrap = [key |-> mk, dev |-> dev]
  /\ pc \in Wrapped \ {"sync"} => synced
  /\ returned \in {"true", "noticed"} => wrap \in Wraps /\ wrap.dev = dev

\* What the database and its copy are at each place.
FilesAtPlace ==
  /\ pc \in {"create", "probe", "attach", "export", "remove"} => db # NoFile
  /\ pc = "create" => db.key = Blank
  /\ pc \in {"export", "remove", "rename"} => enc # NoFile
  /\ pc \in {"remove", "rename"} => enc.key = mk
  /\ pc = "remove" => enc.rows = db.rows
  /\ pc = "rename" => db = NoFile

\* An open database is opened with the key in the wrap file.
OpenUnderKey ==
  handle # NoKey => /\ wrap \in Wraps
                    /\ wrap.key = handle
                    /\ db # NoFile
                    /\ db.key \in {handle, Blank}

\* A database in clear has all rows, whatever encrypt_db() has left beside it.
PlainHasAll == db # NoFile /\ db.key = Plain => committed \subseteq db.rows

\* encrypt_db() at work on a database that was not encrypted: all rows are in
\* the clear database until they are all in the copy.
InGoodHands ==
  pc # "idle" =>
    /\ db = NoFile \/ db.key \in {Plain, Blank}
    /\ \/ db # NoFile /\ db.key = Plain
       \/ committed = {}
       \/ pc = "rename" /\ committed \subseteq enc.rows

SecurityInv == /\ TypeOK
               /\ EncryptsAlone
               /\ WrapAtPlace
               /\ FilesAtPlace
               /\ OpenUnderKey
               /\ PlainHasAll
               /\ ~careless => InGoodHands
               /\ NoRowLost
               /\ CarefulEncryptIsReadable

-----------------------------------------------------------------------------
(* Facts about the constants and the operators.                            *)

LEMMA KeysDiffer ==
  /\ Plain \notin Keys
  /\ Blank \notin Keys
  /\ Blank # Plain
  /\ NoKey = Plain
  BY SecurityAssumption DEF Plain, Blank, Keys, NoKey

LEMMA NothingIsAFile ==
  /\ NoFile \notin Files
  /\ NoFile # Torn
  /\ NoFile \notin Wraps
  /\ Torn \notin Wraps
  BY SecurityAssumption

\* What UnwrappedKey() gives is a key only if it is that of the wrap file.
LEMMA UnwrappedIsWrapped ==
  ASSUME NEW w \in Wraps \cup {NoFile, Torn}, NEW d,
         UnwrappedKey(w, d) # NoKey
  PROVE  w \in Wraps /\ w.dev = d /\ UnwrappedKey(w, d) = w.key
  BY DEF UnwrappedKey

LEMMA WrappedIsUnwrapped ==
  ASSUME NEW w \in Wraps
  PROVE  UnwrappedKey(w, w.dev) = w.key
  BY NothingIsAFile DEF UnwrappedKey

\* A call with the key in the wrap file unused finds all rows in clear, or
\* none at all.
LEMMA UnusedKeyGoodHands ==
  ASSUME SecurityInv, ~careless, KeyUnused
  PROVE  /\ db = NoFile \/ db.key \in {Plain, Blank}
         /\ (db # NoFile /\ db.key = Plain) \/ committed = {}
  <1>1. CASE db # NoFile /\ db.key = Plain
    BY <1>1
  <1>2. CASE \A f \in {db, enc} : f = NoFile \/ f.key = Blank
    <2>1. \A f \in {db, enc} : ~Legible(f)
      BY <1>2, KeysDiffer, NothingIsAFile DEF Legible, SecurityInv, TypeOK, Wraps
    <2>2. committed = {}
      BY <2>1 DEF SecurityInv, NoRowLost
    <2>. QED
      BY <1>2, <2>2
  <1>. QED
    BY <1>1, <1>2 DEF KeyUnused

-----------------------------------------------------------------------------
(* SecurityInv is inductive.                                               *)

LEMMA InitSecurity == Init => SecurityInv
  <1>. SUFFICES ASSUME Init
                PROVE  SecurityInv
    OBVIOUS
  <1>. USE KeysDiffer, NothingIsAFile, SecurityAssumption
  <1>1. TypeOK
    <2>1. db \in Files \cup {NoFile} /\ committed \subseteq Rows
      BY DEF Init, Files
    <2>2. encrypts \in 0..MaxEncrypts /\ stops \in 0..MaxStops
      BY DEF Init
    <2>. QED
      BY <2>1, <2>2 DEF Init, TypeOK, Stages
  <1>2. EncryptsAlone /\ WrapAtPlace /\ FilesAtPlace /\ OpenUnderKey
    BY DEF Init, EncryptsAlone, WrapAtPlace, FilesAtPlace, OpenUnderKey, Wrapped
  <1>3. InGoodHands /\ CarefulEncryptIsReadable
    BY DEF Init, InGoodHands, CarefulEncryptIsReadable, EncryptedIsReadable, HoldsAllUnder
  <1>4. PlainHasAll /\ NoRowLost
    <2>1. CASE committed = {}
      BY <2>1 DEF PlainHasAll, NoRowLost
    <2>2. CASE db = [key |-> Plain, rows |-> committed]
      <3>1. db # NoFile
        BY <2>2 DEF Init, Files
      <3>. QED
        BY <2>2, <3>1 DEF PlainHasAll, NoRowLost, Legible
    <2>. QED
      BY <2>1, <2>2 DEF Init
  <1>. QED
    BY <1>1, <1>2, <1>3, <1>4 DEF SecurityInv


\* encrypt_db() is called: from here on the rows are in good hands, if the key
\* in the wrap file was not needed.
LEMMA StartEncryptKeeps ==
  ASSUME SecurityInv, StartEncrypt
  PROVE  SecurityInv'
  <1>. USE KeysDiffer DEF StartEncrypt, disk, app
  <1>1. TypeOK'
    <2>1. mk' \in Keys /\ encrypts' \in 0..MaxEncrypts
      BY SecurityAssumption DEF SecurityInv, TypeOK, Keys
    <2>2. careless' \in BOOLEAN
      OBVIOUS
    <2>. QED
      BY <2>1, <2>2 DEF SecurityInv, TypeOK, Stages, Fingerprint
  <1>2. EncryptsAlone' /\ WrapAtPlace' /\ FilesAtPlace' /\ OpenUnderKey' /\ PlainHasAll'
    <2>1. mk' \in Keys
      BY SecurityAssumption DEF SecurityInv, TypeOK, Keys
    <2>. QED
      BY <2>1 DEF SecurityInv, Stages, Wrapped, EncryptsAlone, WrapAtPlace, FilesAtPlace,
                  OpenUnderKey, PlainHasAll
  <1>3. CASE careless \/ ~KeyUnused
    <2>1. careless' = TRUE
      BY <1>3
    <2>. QED
      BY <1>1, <1>2, <2>1 DEF SecurityInv, NoRowLost, CarefulEncryptIsReadable
  <1>4. CASE ~careless /\ KeyUnused
    <2>1. InGoodHands'
      BY <1>4, UnusedKeyGoodHands DEF InGoodHands
    <2>2. NoRowLost' /\ CarefulEncryptIsReadable'
      BY <1>4 DEF SecurityInv, NoRowLost, CarefulEncryptIsReadable, EncryptedIsReadable, HoldsAllUnder,
                  Legible
    <2>. QED
      BY <1>1, <1>2, <2>1, <2>2 DEF SecurityInv
  <1>. QED
    BY <1>3, <1>4

\* The machine stops: at worst the wrap file is torn, which matters only while
\* the rows are in clear.
LEMMA CrashKeeps ==
  ASSUME SecurityInv, Crash
  PROVE  SecurityInv'
  <1>. USE KeysDiffer, NothingIsAFile DEF Crash, app, SecurityInv
  <1>1. wrap' \in {wrap, Torn} /\ (synced => wrap' = wrap)
    OBVIOUS
  <1>2. TypeOK'
    <2>1. stops' \in 0..MaxStops
      BY SecurityAssumption DEF TypeOK
    <2>2. wrap' \in Wraps \cup {NoFile, Torn}
      BY <1>1 DEF TypeOK
    <2>. QED
      BY <2>1, <2>2 DEF TypeOK, Stages
  <1>3. EncryptsAlone' /\ WrapAtPlace' /\ FilesAtPlace' /\ OpenUnderKey' /\ PlainHasAll'
    BY DEF EncryptsAlone, WrapAtPlace, FilesAtPlace, OpenUnderKey, PlainHasAll, Wrapped
  <1>4. InGoodHands' /\ CarefulEncryptIsReadable'
    BY DEF InGoodHands, CarefulEncryptIsReadable, EncryptedIsReadable, HoldsAllUnder, EncryptsAlone
  <1>5. NoRowLost'
    <2>. SUFFICES ASSUME ~careless
                  PROVE  NoRowLost'
      BY DEF NoRowLost
    <2>1. CASE committed = {}
      BY <2>1 DEF NoRowLost
    <2>2. CASE db # NoFile /\ db.key = Plain
      BY <2>2 DEF NoRowLost, Legible, PlainHasAll
    <2>3. CASE pc = "rename" /\ committed \subseteq enc.rows
      <3>1. wrap' = [key |-> mk, dev |-> dev] /\ enc # NoFile /\ enc.key = mk
        BY <2>3, <1>1 DEF WrapAtPlace, FilesAtPlace, Wrapped, Stages
      <3>2. wrap' \in Wraps
        BY <1>1, <2>3, <3>1 DEF TypeOK, EncryptsAlone, Wraps
      <3>. QED
        BY <2>3, <3>1, <3>2 DEF NoRowLost, Legible
    <2>. QED
      BY <2>1, <2>2, <2>3 DEF InGoodHands
  <1>. QED
    BY <1>2, <1>3, <1>4, <1>5

LEMMA NextSecurity == SecurityInv /\ [Next]_vars => SecurityInv'
  <1>. SUFFICES ASSUME SecurityInv, [Next]_vars
                PROVE  SecurityInv'
    OBVIOUS
  <1>. USE KeysDiffer, NothingIsAFile
       DEF disk, call, app, Stages, Wrapped, Files, Wraps, SecurityInv, TypeOK,
           EncryptsAlone, WrapAtPlace, FilesAtPlace, OpenUnderKey, PlainHasAll,
           InGoodHands, NoRowLost, CarefulEncryptIsReadable, EncryptedIsReadable, HoldsAllUnder,
           Legible, UnwrappedKey
  <1>1. CASE StartEncrypt
    BY <1>1, StartEncryptKeeps
  <1>2. CASE TruncateWrap
    BY <1>2 DEF TruncateWrap
  <1>3. CASE WriteWrap
    BY <1>3 DEF WriteWrap
  <1>4. CASE SyncWrap
    BY <1>4 DEF SyncWrap
  <1>5. CASE OpenNewDb
    BY <1>5 DEF OpenNewDb
  <1>6. CASE CreateTable
    BY <1>6 DEF CreateTable, Return
  <1>7. CASE OpenDb
    BY <1>7 DEF OpenDb
  <1>8. CASE NoticeEncrypted
    BY <1>8 DEF NoticeEncrypted, Return
  <1>9. CASE NoticeNothing
    BY <1>9 DEF NoticeNothing
  <1>10. CASE Attach
    BY <1>10 DEF Attach
  <1>11. ASSUME NEW r \in Rows, ExportRow(r)
         PROVE  SecurityInv'
    BY <1>11 DEF ExportRow
  <1>12. CASE EndExport
    BY <1>12 DEF EndExport
  <1>13. CASE RemoveDb
    BY <1>13 DEF RemoveDb
  <1>14. CASE RenameEnc
    BY <1>14 DEF RenameEnc, Return
  <1>15. CASE Fail
    BY <1>15 DEF Fail, Return
  <1>16. CASE Decrypt
    BY <1>16 DEF Decrypt
  <1>17. ASSUME NEW r \in Rows, Commit(r)
         PROVE  SecurityInv'
    BY <1>17 DEF Commit
  <1>18. CASE Close
    BY <1>18 DEF Close
  <1>19. CASE Crash
    BY <1>19, CrashKeeps
  <1>20. CASE SourcesChange
    BY <1>20 DEF SourcesChange
  <1>21. CASE UNCHANGED vars
    BY <1>21 DEF vars
  <1>. HIDE DEF SecurityInv
  <1>. QED
    BY <1>1, <1>2, <1>3, <1>4, <1>5, <1>6, <1>7, <1>8, <1>9, <1>10, <1>11, <1>12,
       <1>13, <1>14, <1>15, <1>16, <1>17, <1>18, <1>19, <1>20, <1>21 DEF Next

\* The invariant that all results below are read off.
THEOREM SecurityInvariant == Spec => []SecurityInv
  BY InitSecurity, NextSecurity, PTL DEF Spec

-----------------------------------------------------------------------------
(* What follows.                                                           *)

\* Every variable keeps its type; a database is never open under the key of a
\* file of no bytes.
THEOREM SecurityTypes == Spec => []TypeOK
  <1>1. SecurityInv => TypeOK
    BY DEF SecurityInv
  <1>. QED
    BY <1>1, SecurityInvariant, PTL

\* No row is lost, for any number of failures and crashes of encrypt_db() and
\* any number of tries after them, as long as the key in the wrap file is
\* unused whenever encrypt_db() is called.
THEOREM RowsSurvive == Spec => []NoRowLost
  <1>1. SecurityInv => NoRowLost
    BY DEF SecurityInv
  <1>. QED
    BY <1>1, SecurityInvariant, PTL

\* After encrypt_db() has returned true on a database that was not encrypted,
\* the database has all rows and opens with the key in the wrap file; or it has
\* all rows and is as it was, if the probe has failed (security.cpp:562-565).
THEOREM TrueIsReadable == Spec => []CarefulEncryptIsReadable
  <1>1. SecurityInv => CarefulEncryptIsReadable
    BY DEF SecurityInv
  <1>. QED
    BY <1>1, SecurityInvariant, PTL

\* The database is removed only when all of its rows are in the copy, under a
\* key that is in the wrap file on the disk.  This needs no careful caller.
THEOREM RemovalIsSafe == Spec => RemovedWhenCopied
  <1>. DEFINE Safe == /\ enc # NoFile
                      /\ db.rows \subseteq enc.rows
                      /\ synced /\ wrap \notin {NoFile, Torn} /\ wrap.key = enc.key
  <1>1. ASSUME SecurityInv, [Next]_vars, db # NoFile, db' = NoFile
        PROVE  Safe
    <2>1. RemoveDb
      BY <1>1, NothingIsAFile
      DEF SecurityInv, TypeOK, EncryptsAlone, FilesAtPlace, OpenUnderKey, Next, vars, disk,
          call, app, Return, Files, StartEncrypt, TruncateWrap, WriteWrap, SyncWrap,
          OpenNewDb, CreateTable, OpenDb, NoticeEncrypted, NoticeNothing, Attach,
          ExportRow, EndExport, RenameEnc, Fail, Decrypt, Commit, Close, Crash,
          SourcesChange
    <2>. QED
      BY <1>1, <2>1, NothingIsAFile
      DEF RemoveDb, SecurityInv, TypeOK, EncryptsAlone, WrapAtPlace, FilesAtPlace, Wrapped, Stages,
          Wraps
  <1>2. SecurityInv /\ [Next]_vars => [db # NoFile /\ db' = NoFile => Safe]_vars
    BY <1>1
  <1>. QED
    BY <1>2, SecurityInvariant, PTL DEF Spec, RemovedWhenCopied
=============================================================================
