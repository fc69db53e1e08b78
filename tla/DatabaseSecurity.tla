--------------------------- MODULE DatabaseSecurity ---------------------------
(***************************************************************************)
(* database::security (src/src/database/security.{h,cpp}): encrypt_db()    *)
(* turns a plain SQLite database into an encrypted one, in place, or makes *)
(* a new encrypted one; decrypt_db() opens it.  The database key mk is     *)
(* random; it is kept in the wrap file, encrypted under a key derived from *)
(* the fingerprint of the device.                                          *)
(*                                                                         *)
(* Three files matter: the wrap file, the database at db_path, and the     *)
(* copy db_path + ".enc" the rows are exported to.  An action is the code  *)
(* between two effects on them, so that the process may stop (Crash)       *)
(* between any two.  A machine that stops loses what it has not synced of  *)
(* the wrap file; SQLite syncs what it commits, and the file system keeps  *)
(* the order of a removal and a renaming.                                  *)
(*                                                                         *)
(* Keys and ciphers are abstract: mk is a number no earlier call has       *)
(* drawn, and a file opens under its own key only.                         *)
(***************************************************************************)
EXTENDS Naturals, FiniteSets

CONSTANTS Rows,         \* what is stored in the database
          Sources,      \* what a fingerprint is made of: serial number, MAC
          NoFile,       \* stands for a missing file
          Torn,         \* a wrap file without all of its fields
          MaxEncrypts,  \* bound: calls of encrypt_db()
          MaxStops      \* bound: crashes

Plain == 0                      \* the key of a file that is not encrypted
Blank == MaxEncrypts + 1        \* the key of a file of no bytes: any will do
Keys  == 1..MaxEncrypts
NoKey == Plain

Wraps == [key : Keys, dev : SUBSET Sources]
Files == [key : Keys \cup {Plain, Blank}, rows : SUBSET Rows]

ASSUME SecurityAssumption == /\ MaxEncrypts \in Nat
                             /\ MaxStops \in Nat
                             /\ NoFile # Torn
                             /\ {NoFile, Torn} \cap Wraps = {}
                             /\ NoFile \notin Files

VARIABLES wrap,       \* the wrap file
          synced,     \* whether its content is on the disk
          db,         \* the database file
          enc,        \* the file db_path + ".enc"
          readable,   \* the sources the system lets a process read now
          pc,         \* where the process is in encrypt_db()
          mk,         \* local mk of encrypt_db()
          dev,        \* the fingerprint encrypt_db() has made
          handle,     \* the key decrypt_db() has opened the database with
          returned,   \* what the last encrypt_db() has returned; "noticed" is
                      \* a true of one that took the database for encrypted
          committed,  \* the rows the application has committed, ever
          careless,   \* whether encrypt_db() was called with its key in use
          encrypts, stops

disk == <<wrap, synced, db, enc>>
call == <<pc, mk, dev, returned, encrypts, careless>>
app  == <<handle, committed>>
vars == <<disk, call, app, readable, stops>>

Stages == {"idle", "truncate", "write", "sync", "exists", "create", "probe",
           "attach", "export", "remove", "rename"}

\* Types; an application has the database open with a key that was drawn for
\* it, never with what a file that is not whole happens to hold.
TypeOK ==
  /\ wrap \in Wraps \cup {NoFile, Torn}
  /\ {db, enc} \subseteq Files \cup {NoFile}
  /\ {readable, dev} \subseteq SUBSET Sources
  /\ pc \in Stages
  /\ {mk, handle} \subseteq Keys \cup {NoKey}
  /\ returned \in {"nothing", "false", "true", "noticed"}
  /\ committed \subseteq Rows
  /\ {synced, careless} \subseteq BOOLEAN
  /\ encrypts \in 0..MaxEncrypts
  /\ stops \in 0..MaxStops

\* A database in clear that an application has used, or none yet.
Init ==
  /\ wrap = NoFile
  /\ synced = TRUE
  /\ enc = NoFile
  /\ \/ /\ db = NoFile
        /\ committed = {}
     \/ /\ committed \in SUBSET Rows \ {{}}
        /\ db = [key |-> Plain, rows |-> committed]
  /\ readable \in SUBSET Sources
  /\ pc = "idle"
  /\ mk = NoKey
  /\ dev = {}
  /\ handle = NoKey
  /\ returned = "nothing"
  /\ careless = FALSE
  /\ encrypts = 0
  /\ stops = 0

-----------------------------------------------------------------------------
(* The wrap file.                                                          *)

\* make_devid(), make_shift_salt(): a source that cannot be read is left out
\* of the fingerprint, and nobody is told.
Fingerprint == readable

\* Mutant: neither the fields nor the tag are checked: any file gives a key.
UnwrappedKeyUnchecked(w, fingerprint) == CASE w = NoFile -> NoKey
                                           [] w = Torn   -> Blank
                                           [] OTHER      -> w.key

\* decrypt_mk() of a wrap file: what it gives on this device, now.
UnwrappedKey(w, fingerprint) ==
  IF w \notin {NoFile, Torn} /\ w.dev = fingerprint THEN w.key ELSE NoKey

\* The key in the wrap file is needed for nothing: the database is in clear,
\* or no file is encrypted.
KeyUnused == \/ /\ db # NoFile
                /\ db.key = Plain
             \/ \A f \in {db, enc} : f = NoFile \/ f.key = Blank

\* encrypt_mk(): a new key, whatever the state of the database.
StartEncrypt ==
  /\ pc = "idle"
  /\ handle = NoKey
  /\ encrypts < MaxEncrypts
  /\ encrypts' = encrypts + 1
  /\ mk' = encrypts + 1
  /\ dev' = Fingerprint
  /\ pc' = "truncate"
  /\ returned' = "nothing"
  /\ careless' = (careless \/ ~KeyUnused)
  /\ UNCHANGED <<disk, app, readable, stops>>

\* SecureFileWriter: O_CREAT | O_TRUNC.
TruncateWrap ==
  /\ pc = "truncate"
  /\ wrap' = Torn
  /\ synced' = FALSE
  /\ pc' = "write"
  /\ UNCHANGED <<db, enc, mk, dev, returned, encrypts, careless, app, readable, stops>>

WriteWrap ==
  /\ pc = "write"
  /\ wrap' = [key |-> mk, dev |-> dev]
  /\ pc' = "sync"
  /\ UNCHANGED <<synced, db, enc, mk, dev, returned, encrypts, careless, app, readable, stops>>

\* Mutant: write_wrap() without the fsync.
SyncNothing ==
  /\ pc = "sync"
  /\ pc' = "exists"
  /\ UNCHANGED <<disk, mk, dev, returned, encrypts, careless, app, readable, stops>>

SyncWrap ==
  /\ pc = "sync"
  /\ synced' = TRUE
  /\ pc' = "exists"
  /\ UNCHANGED <<wrap, db, enc, mk, dev, returned, encrypts, careless, app, readable, stops>>

-----------------------------------------------------------------------------
(* The database file.                                                      *)

\* A call that returns; the files stay as they are.
Return(result) ==
  /\ pc' = "idle"
  /\ mk' = NoKey
  /\ returned' = result
  /\ UNCHANGED <<dev, encrypts, careless>>

\* No database: sqlite3_open() makes a file of no bytes.
OpenNewDb ==
  /\ pc = "exists"
  /\ db = NoFile
  /\ db' = [key |-> Blank, rows |-> {}]
  /\ pc' = "create"
  /\ UNCHANGED <<wrap, synced, enc, mk, dev, returned, encrypts, careless, app, readable, stops>>

\* CREATE TABLE _encryption, under the key.
CreateTable ==
  /\ pc = "create"
  /\ db' = [key |-> mk, rows |-> {}]
  /\ Return("true")
  /\ UNCHANGED <<wrap, synced, enc, app, readable, stops>>

OpenDb ==
  /\ pc = "exists"
  /\ db # NoFile
  /\ pc' = "probe"
  /\ UNCHANGED <<disk, mk, dev, returned, encrypts, careless, app, readable, stops>>

\* "SELECT 1;" without a key.  Any error is taken for the sign of an encrypted
\* database: no memory or a lock as well, whatever the database is.
NoticeEncrypted ==
  /\ pc = "probe"
  /\ Return("noticed")
  /\ UNCHANGED <<disk, app, readable, stops>>

\* SQLite can answer without a look at the file, so that an encrypted database
\* may go unnoticed.
NoticeNothing ==
  /\ pc = "probe"
  /\ pc' = "attach"
  /\ UNCHANGED <<disk, mk, dev, returned, encrypts, careless, app, readable, stops>>

Attach ==
  /\ pc = "attach"
  /\ enc' = IF enc = NoFile THEN [key |-> Blank, rows |-> {}] ELSE enc
  /\ pc' = "export"
  /\ UNCHANGED <<wrap, synced, db, mk, dev, returned, encrypts, careless, app, readable, stops>>

\* sqlcipher_export() reads the database without a key, and opens the copy
\* with the new one.
Exportable == /\ db.key \in {Plain, Blank}
              /\ enc.key \in {mk, Blank}

ExportRow(r) ==
  /\ pc = "export"
  /\ Exportable
  /\ r \in db.rows \ enc.rows
  /\ enc' = [key |-> mk, rows |-> enc.rows \cup {r}]
  /\ UNCHANGED <<wrap, synced, db, call, app, readable, stops>>

\* Mutant: the error of the export is logged, and that is all.
EndExportAnyhow ==
  /\ pc = "export"
  /\ pc' = "remove"
  /\ UNCHANGED <<disk, mk, dev, returned, encrypts, careless, app, readable, stops>>

\* Everything is exported; an error of DETACH would be logged only.
EndExport ==
  /\ pc = "export"
  /\ Exportable
  /\ enc.rows = db.rows
  /\ enc' = [enc EXCEPT !.key = mk]
  /\ pc' = "remove"
  /\ UNCHANGED <<wrap, synced, db, mk, dev, returned, encrypts, careless, app, readable, stops>>

RemoveDb ==
  /\ pc = "remove"
  /\ db' = NoFile
  /\ pc' = "rename"
  /\ UNCHANGED <<wrap, synced, enc, mk, dev, returned, encrypts, careless, app, readable, stops>>

\* Mutant: the copy is left where it is.
RenameNothing ==
  /\ pc = "rename"
  /\ Return("true")
  /\ UNCHANGED <<disk, app, readable, stops>>

RenameEnc ==
  /\ pc = "rename"
  /\ db' = enc
  /\ enc' = NoFile
  /\ Return("true")
  /\ UNCHANGED <<wrap, synced, app, readable, stops>>

\* Any other call of the system may fail, and the export must when it cannot
\* read or write: encrypt_db() returns false and undoes nothing.
Fail ==
  /\ pc \notin {"idle", "probe"}
  /\ Return("false")
  /\ UNCHANGED <<disk, app, readable, stops>>

-----------------------------------------------------------------------------
(* The application.                                                        *)

\* decrypt_db() that returns true: the key is unwrapped, sqlite3_open() makes
\* a file where there is none, and verify_db() counts its tables.
Decrypt ==
  /\ pc = "idle"
  /\ handle = NoKey
  /\ LET key    == UnwrappedKey(wrap, Fingerprint)
         opened == IF db = NoFile THEN [key |-> Blank, rows |-> {}] ELSE db
     IN  /\ key # NoKey
         /\ opened.key \in {key, Blank}
         /\ db' = opened
         /\ handle' = key
  /\ UNCHANGED <<wrap, synced, enc, call, committed, readable, stops>>

\* The application commits a row of its own.
Commit(r) ==
  /\ handle # NoKey
  /\ r \notin committed
  /\ db' = [key |-> handle, rows |-> db.rows \cup {r}]
  /\ committed' = committed \cup {r}
  /\ UNCHANGED <<wrap, synced, enc, call, handle, readable, stops>>

Close ==
  /\ handle # NoKey
  /\ handle' = NoKey
  /\ UNCHANGED <<disk, call, committed, readable, stops>>

\* The process, or the machine, stops.
Crash ==
  /\ stops < MaxStops
  /\ pc # "idle"
  /\ stops' = stops + 1
  /\ pc' = "idle"
  /\ mk' = NoKey
  /\ wrap' \in IF synced THEN {wrap} ELSE {wrap, Torn}
  /\ synced' = TRUE
  /\ UNCHANGED <<db, enc, dev, returned, encrypts, careless, app, readable>>

\* The MAC address, say, becomes readable once the interface is up.
SourcesChange ==
  /\ pc = "idle"
  /\ handle = NoKey
  /\ readable' \in SUBSET Sources
  /\ UNCHANGED <<disk, call, app, stops>>

Next ==
  \/ StartEncrypt \/ TruncateWrap \/ WriteWrap \/ SyncWrap
  \/ OpenNewDb \/ CreateTable
  \/ OpenDb \/ NoticeEncrypted \/ NoticeNothing \/ Attach
  \/ \E r \in Rows : ExportRow(r)
  \/ EndExport \/ RemoveDb \/ RenameEnc
  \/ Fail
  \/ Decrypt \/ Close \/ Crash \/ SourcesChange
  \/ \E r \in Rows : Commit(r)

Spec == Init /\ [][Next]_vars

-----------------------------------------------------------------------------
(* Properties                                                              *)

\* Whoever has the wrap file can read the file f, on some device.
Legible(f) == /\ f # NoFile
              /\ \/ f.key = Plain
                 \/ /\ wrap \notin {NoFile, Torn}
                    /\ f.key = wrap.key

\* No row the application has committed is lost, wherever encrypt_db() fails or
\* stops and however often it is tried again, as long as it is called while
\* the key in the wrap file is unused.  To try again after a crash between
\* removal and renaming is to call it while the copy needs that key.
NoRowLost ==
  ~careless =>
    \A r \in committed : \E f \in {db, enc} : Legible(f) /\ r \in f.rows

\* The database has all rows and is under one of these keys.
HoldsAllUnder(keys) == db # NoFile /\ db.key \in keys /\ committed \subseteq db.rows

\* What the result of encrypt_db() says (security.cpp:520: whether it
\* succeeded): the database has all rows and opens with the key in the wrap
\* file.  A call that has taken the database for encrypted may have been wrong,
\* but then it is in clear, or of no bytes, as before.
EncryptedIsReadable ==
  LET key == UnwrappedKey(wrap, dev)
  IN  /\ returned = "true"    => HoldsAllUnder({key})
      /\ returned = "noticed" => HoldsAllUnder({key, Plain, Blank})

\* It is true of a database that was not encrypted before.
CarefulEncryptIsReadable == ~careless => EncryptedIsReadable

\* "The database is encrypted" (security.cpp:563), where encrypt_db() says so
\* and returns true.
NoticedIsEncrypted == returned = "noticed" => db.key \in Keys

\* The database is removed only when there is a full copy under a key that is
\* in the wrap file, on the disk, however many calls have failed before.
RemovedWhenCopied ==
  [][db # NoFile /\ db' = NoFile =>
       /\ enc # NoFile
       /\ db.rows \subseteq enc.rows
       /\ synced /\ wrap \notin {NoFile, Torn} /\ wrap.key = enc.key]_vars
=============================================================================
