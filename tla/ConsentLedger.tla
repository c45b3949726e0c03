----------------------------- MODULE ConsentLedger -----------------------------
(***************************************************************************)
(* The consent ledger (modules/consent/src/ledger.ts): records of one      *)
(* subject, each with the hash of the one before it and a signature, kept  *)
(* in a table by callers that read the latest record and append to it.     *)
(* Rows may be changed behind the ledger's back, and a process that starts *)
(* without stored keys signs with new ones.                                *)
(*                                                                         *)
(* What is hashed is one text: the hash before it, of a fixed length, the  *)
(* state as JSON, whose end can be told, and then subject, ts and source   *)
(* with nothing between them.  Two records that differ only in where those *)
(* three borders lie have one hash.  Different texts have different        *)
(* hashes, so a hash is written as the sequence of the texts of all        *)
(* records up to it; the genesis hash is the empty one.                    *)
(***************************************************************************)
EXTENDS Naturals, Sequences, SequencesExt

CONSTANTS
  Writers,   \* callers of append
  Contents,  \* records of a state and of a subject, ts and source, which are texts
             \* (sequences of pieces)
  Home, Other,  \* the subject's tenant, and another one
  MaxLines,   \* bound: rows ever appended
  MaxKeys,    \* bound: changes of the key pair
  MaxEdits    \* bound: rows changed behind the ledger's back

VARIABLES
  rows,     \* the table, in the order of insertion
  reading,  \* per writer: the hash of the latest record it read
  key,      \* the key pair of the running process
  issued,   \* history: records appended with the current key pair
  edits     \* how many edits there were

ledgerVars == <<rows, reading, key, issued, edits>>

Genesis == <<>>
NotReading == [hash |-> Genesis, on |-> FALSE]

LedgerInit ==
  /\ rows = <<>> /\ issued = {} /\ key = 0 /\ edits = 0
  /\ reading = [w \in Writers |-> NotReading]

hashedText(content) == <<content.state, content.subject \o content.ts \o content.source>>
computeRecordHash(prevHash, content) == Append(prevHash, hashedText(content))

\* append(): the tenant is stored but not hashed.
LedgerRecord(content, prevHash) ==
  LET hash == computeRecordHash(prevHash, content) IN
  [tenant |-> Home, content |-> content, prevHash |-> prevHash, hash |-> hash,
   sig |-> [key |-> key, of |-> hash]]

\* The caller looks up the subject's latest record ...
ReadLatest(w) ==
  /\ ~reading[w].on
  /\ reading' = [reading EXCEPT ![w] =
       [hash |-> IF rows = <<>> THEN Genesis ELSE Last(rows).hash, on |-> TRUE]]
  /\ UNCHANGED <<rows, key, issued, edits>>

\* ... and appends to it, whatever was appended meanwhile.
AppendRecord(w, content) ==
  LET record == LedgerRecord(content, reading[w].hash) IN
  /\ reading[w].on /\ Len(rows) < MaxLines
  /\ rows' = Append(rows, record)
  /\ issued' = issued \cup {record}
  /\ reading' = [reading EXCEPT ![w] = NotReading]
  /\ UNCHANGED <<key, edits>>

\* Rows removed, exchanged, moved to another tenant or rewritten, with a hash that
\* fits or not, by another text or by the same one cut elsewhere; nobody outside the
\* process can sign.
EditRows ==
  /\ edits < MaxEdits /\ edits' = edits + 1
  /\ \E i \in DOMAIN rows :
       \/ rows' = RemoveAt(rows, i)
       \/ \E j \in DOMAIN rows : rows' = [rows EXCEPT ![i] = rows[j], ![j] = rows[i]]
       \/ rows' = [rows EXCEPT ![i].tenant = Other]
       \/ \E c \in Contents : rows' = [rows EXCEPT ![i].content = c]
       \/ \E c \in Contents : rows' = [rows EXCEPT ![i].content = c,
                                         ![i].hash = computeRecordHash(rows[i].prevHash, c)]
  /\ UNCHANGED <<reading, key, issued>>

\* A constructor without keys generates a pair.
RestartWithoutKeys ==
  /\ key < MaxKeys /\ key' = key + 1
  /\ issued' = {}
  /\ reading' = [w \in Writers |-> NotReading]
  /\ UNCHANGED <<rows, edits>>

LedgerNext ==
  \/ \E w \in Writers : ReadLatest(w) \/ (\E c \in Contents : AppendRecord(w, c))
  \/ EditRows \/ RestartWithoutKeys

LedgerSpec == LedgerInit /\ [][LedgerNext]_ledgerVars

\* Mutant: the stored hash is believed, not computed again.
BadAtTrusting(chain, i) ==
  LET prevHash == IF i = 1 THEN Genesis ELSE chain[i - 1].hash IN
  chain[i].prevHash # prevHash \/ chain[i].sig # [key |-> key, of |-> chain[i].hash]

\* What verifyChain checks of the record at an index, given the one before.
BadAt(chain, i) ==
  LET prevHash == IF i = 1 THEN Genesis ELSE chain[i - 1].hash IN
  \/ chain[i].prevHash # prevHash
  \/ chain[i].hash # computeRecordHash(prevHash, chain[i].content)
  \/ chain[i].sig # [key |-> key, of |-> chain[i].hash]

\* verifyChain: 0 if the chain is accepted, else the index of the first bad record.
verifyChain(chain) ==
  IF \E i \in DOMAIN chain : BadAt(chain, i)
  THEN CHOOSE i \in DOMAIN chain : BadAt(chain, i) /\ \A j \in 1..(i - 1) : ~BadAt(chain, j)
  ELSE 0

-----------------------------------------------------------------------------
\* A chain is accepted exactly if it is a line of records that were appended, each
\* to the one before it, up to what the hash does not see: the tenant, and where
\* subject, ts and source meet.  A fork, a gap, an exchange, another text or state
\* and a change of keys are all noticed, where they begin; a chain cut at its end is
\* not, and neither are characters moved from one of the three fields to the next.
SameForTheHash(row, record) ==
  /\ row.prevHash = record.prevHash /\ row.hash = record.hash /\ row.sig = record.sig
  /\ hashedText(row.content) = hashedText(record.content)
Genuine(n) ==
  \A i \in 1..n :
    /\ \E record \in issued : SameForTheHash(rows[i], record)
    /\ rows[i].prevHash = [k \in 1..(i - 1) |-> hashedText(rows[k].content)]
OnlyAppendedLinesVerify ==
  LET bad == verifyChain(rows) IN
  IF bad = 0 THEN Genuine(Len(rows)) ELSE Genuine(bad - 1) /\ ~Genuine(bad)
=============================================================================
