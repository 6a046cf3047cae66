------------------------------ MODULE KeyStore ------------------------------
(***************************************************************************)
(* The secrets of the wallet: the keys of CCryptoKeyStore, the spend       *)
(* secrets of the wallet's stealth addresses and the extended keys, in     *)
(* memory and in wallet.dat, under encryption, unlocking, locking, the     *)
(* change of the passphrase, the timer that ends an unlocking, payments    *)
(* that arrive while the wallet is locked, restarts and crashes.           *)
(*                                                                         *)
(* A secret is Plain, Empty (a key known by its public half only) or the   *)
(* number of the master key it is encrypted under.  An operation holds     *)
(* cs_wallet from its first change to its last, so its steps interleave    *)
(* with nothing, but for the Lock of the dialog, which gives cs_wallet     *)
(* back before LockKeyStore: here that falls between two operations, never *)
(* within one.  An operation writes wallet.dat record by record, and a     *)
(* crash may leave any of the contents it goes through.  Commands given to *)
(* a node that is stopping are left out, payments it still receives are    *)
(* not.                                                                    *)
(***************************************************************************)
EXTENDS Integers, Sequences, FiniteSets

CONSTANTS
  Passphrases,
  StealthAddrs,  \* stealth addresses the wallet may come to own
  InitKeys,      \* numbers of plain keys wallet.dat may start with: 0 for the wallet the program makes
  PoolSize,      \* -keypool
  MaxKeys,       \* bound: keys the wallet ever has
  MaxMaster,     \* bound: master keys it ever has
  MaxQueued,     \* bound: handlers of expired timers that wait for cs_wallet
  MaxCrash       \* bound: crashes

ASSUME KeyStoreAssumption ==
  /\ MaxKeys \in Nat /\ InitKeys \subseteq 0..MaxKeys /\ PoolSize \in Nat
  /\ MaxMaster \in Nat \ {0} /\ MaxQueued \in Nat \ {0} /\ MaxCrash \in Nat

VARIABLES
  mem,      \* CWallet: crypto, master, keys, ckeys, sx, ext, meta, mkeys, pool, and
            \* locking: the dialog's Lock is between cs_wallet and LockKeyStore; raced
            \* (history): another command has opened a secret since it gave cs_wallet back
  disk,     \* wallet.dat: the records of CWallet
  nKeys,    \* keys 1..nKeys have been made, imported or received, and written
  timer,    \* the timer "lockwallet": armed, handlers queued; until: nWalletUnlockTime is not 0
  stopping, \* StartShutdown was called
  crashes,
  lost      \* history: EncryptWallet left no wallet.dat, or one that is not Openable

vars == <<mem, disk, nKeys, timer, stopping, crashes, lost>>

Plain == 0
Empty == -1
NoMaster == 0
Garbage == MaxMaster + 1  \* what a wrong passphrase or half a ciphertext yields

ExtKeys == {"master", "account"}  \* pEkMaster and the keys of mapExtAccounts

-----------------------------------------------------------------------------
(* Loading wallet.dat.  Only a ckey record makes the key store an encrypted  *)
(* one: an mkey record does not.                                             *)
Load(d) ==
  [crypto |-> DOMAIN d.ckeys # {},
   master |-> NoMaster,
   locking |-> FALSE, raced |-> FALSE,
   keys   |-> d.keys, ckeys |-> d.ckeys, sx |-> d.sx, meta |-> d.meta,
   mkeys  |-> d.mkeys, pool |-> d.pool,
   ext    |-> [e \in ExtKeys |->
                [cipher |-> d.ext[e], key |-> d.ext[e] = Plain]]]

IsLocked(m) == m.crypto /\ m.master = NoMaster

(* An extended key has the flag EAF_IS_CRYPTED once it has a cipher.         *)
IsCryptedExt(x) == x.cipher # Plain

ExtKeyLock(m) ==
  [e \in ExtKeys |->
     IF e = "master" \/ IsCryptedExt(m.ext[e])
     THEN [m.ext[e] EXCEPT !.key = FALSE]
     ELSE m.ext[e]]

ExtKeyUnlock(m, mk) ==
  [e \in ExtKeys |->
     IF IsCryptedExt(m.ext[e])
     THEN [m.ext[e] EXCEPT !.key = @ \/ m.ext[e].cipher = mk]
     ELSE m.ext[e]]

(* CWallet::Lock takes the spend secrets back from wallet.dat.               *)
LockKeepsSpendSecrets(m, d) ==
  [m EXCEPT !.ext = ExtKeyLock(m), !.master = NoMaster, !.raced = FALSE]

Lock(m, d) ==
  IF IsLocked(m) THEN m
  ELSE [m EXCEPT !.sx = d.sx, !.ext = ExtKeyLock(m), !.master = NoMaster,
                 !.raced = FALSE]

(* The master keys that decrypting the first mkey record with a passphrase   *)
(* can give: a wrong passphrase fails, or passes the padding by chance.      *)
Candidates(m, p) ==
  CASE m.mkeys = <<>>   -> {}
    [] m.mkeys[1] = p   -> {1}
    [] m.mkeys[1] # p   -> {Garbage}

(* CCryptoKeyStore::Unlock tries the master key on the first key that has a  *)
(* secret; all of them are under one master key (SecretsRecoverable).        *)
KeyStoreUnlocks(m, mk) ==
  LET full == {k \in DOMAIN m.ckeys : m.ckeys[k] # Empty} IN
    IF full = {} THEN DOMAIN m.ckeys = {}
                 ELSE \A k \in full : m.ckeys[k] = mk

(* UnlockStealthAddresses: decrypt the spend secrets, then expand the keys   *)
(* that came in while the wallet was locked.                                 *)
DecryptedSx(m, mk) ==
  [a \in DOMAIN m.sx |-> IF m.sx[a] = mk THEN Plain ELSE m.sx[a]]

Expandable(m, mk) ==
  {k \in DOMAIN m.ckeys :
     /\ m.ckeys[k] = Empty
     /\ k \in DOMAIN m.meta
     /\ m.meta[k] \in DOMAIN m.sx
     /\ DecryptedSx(m, mk)[m.meta[k]] = Plain}

Filled(ck, K, mk) == [k \in DOMAIN ck |-> IF k \in K THEN mk ELSE ck[k]]

Without(f, K) == [k \in DOMAIN f \ K |-> f[k]]

(* The map f with the value v written for each member of K.                  *)
With(f, K, v) == [k \in K \cup DOMAIN f |-> IF k \in K THEN v ELSE f[k]]

UnlockStealthAddresses(m, mk) ==
  [m EXCEPT !.master = mk,
            !.sx = DecryptedSx(m, mk),
            !.ckeys = Filled(@, Expandable(m, mk), mk),
            !.raced = m.locking]

(* Its writes: for each key the ckey record and then the erased metadata.    *)
ExpandedDisk(d, K, E, mk) ==
  [d EXCEPT !.ckeys = Filled(@, K, mk), !.meta = Without(@, E)]

ExpandDisks(m, d, mk) ==
  LET U == Expandable(m, mk) IN
    {ExpandedDisk(d, K, K, mk) : K \in SUBSET U}
      \cup {ExpandedDisk(d, K, K \ {k}, mk) : K \in SUBSET U, k \in U}

AllExpanded(m, d, mk) ==
  ExpandedDisk(d, Expandable(m, mk), Expandable(m, mk), mk)

(* CWallet::Unlock once the master key has passed.                           *)
Unlocked(m, mk) ==
  [UnlockStealthAddresses(m, mk) EXCEPT !.ext = ExtKeyUnlock(m, mk)]

(* AddKeyPubKey, in memory and in wallet.dat: a ckey record erases the key.  *)
AddKeys(m, K) ==
  IF m.crypto THEN [m EXCEPT !.ckeys = With(@, K, m.master)]
              ELSE [m EXCEPT !.keys = @ \cup K]

WriteKeys(m, d, K) ==
  IF m.crypto THEN [d EXCEPT !.ckeys = With(@, K, m.master),
                             !.keys = @ \ K]
              ELSE [d EXCEPT !.keys = @ \cup K]

(* The n fresh keys of NewKeyPool and TopUpKeyPool, each key before its      *)
(* pool record.                                                              *)
Fresh(n) == nKeys + 1 .. nKeys + n

PoolDisks(m, d, n) ==
  UNION {LET w == WriteKeys(m, d, Fresh(i))
         IN  {[w EXCEPT !.pool = @ \cup Fresh(i)],
              [w EXCEPT !.pool = @ \cup Fresh(i - 1)]} : i \in 1..n}

PoolFilled(m, d, n) == [WriteKeys(m, d, Fresh(n)) EXCEPT !.pool = @ \cup Fresh(n)]

PoolAdded(m, n) == [AddKeys(m, Fresh(n)) EXCEPT !.pool = @ \cup Fresh(n)]

-----------------------------------------------------------------------------
Idle == [armed |-> FALSE, queued |-> 0, until |-> FALSE]

Start(d) ==
  /\ mem' = Load(d)
  /\ disk' = d
  /\ timer' = Idle
  /\ stopping' = FALSE

KeysOf(d) == d.keys \cup DOMAIN d.ckeys

(* An operation ends with memory m, file d and n keys, or the process dies   *)
(* while the file is as it was, or as one of D: the keys are those that had  *)
(* been written before, and those the operation has added.                   *)
Perform(m, d, D, n, t, s) ==
  \/ /\ mem' = m /\ disk' = d /\ nKeys' = n /\ timer' = t /\ stopping' = s
     /\ UNCHANGED crashes
  \/ /\ crashes < MaxCrash
     /\ \E c \in D \cup {disk, d} :
          Start(c) /\ nKeys' = nKeys + Cardinality(KeysOf(c) \ 1..nKeys)
     /\ crashes' = crashes + 1

(* A wallet that was never encrypted, with its extended keys and n others.   *)
FreshDisk(n) ==
  [keys |-> 1..n, ckeys |-> <<>>, sx |-> <<>>, meta |-> <<>>,
   mkeys |-> <<>>, pool |-> {}, ext |-> [e \in ExtKeys |-> Plain]]

Init ==
  /\ nKeys \in InitKeys
  /\ disk = FreshDisk(nKeys)
  /\ mem = Load(disk)
  /\ timer = Idle
  /\ stopping = FALSE
  /\ crashes = 0
  /\ lost = FALSE

(* encryptwallet and the dialog: one transaction of wallet.dat for all the   *)
(* secrets; the extended keys are encrypted in the file only.  Then the      *)
(* wallet is unlocked for a new key pool, locked, and the node stops.        *)
EncryptedMem(p) ==
  LET mk == Len(mem.mkeys) + 1 IN
    [mem EXCEPT !.crypto = TRUE, !.mkeys = Append(@, p), !.keys = {},
                !.ckeys = [k \in mem.keys |-> mk],
                !.sx = [a \in DOMAIN @ |->
                          IF mem.sx[a] = Plain THEN mk ELSE Garbage]]

EncryptedDisk(p) ==
  LET m == EncryptedMem(p) IN
    [disk EXCEPT !.mkeys = m.mkeys, !.keys = {}, !.ckeys = m.ckeys, !.sx = m.sx,
                 !.ext = [e \in ExtKeys |->
                            IF disk.ext[e] = Plain THEN Len(m.mkeys)
                                                   ELSE disk.ext[e]]]

(* The transaction reaches the file as a whole.                              *)
TxnDisksNoBatch(p) ==
  {EncryptedDisk(p), [EncryptedDisk(p) EXCEPT !.ext = disk.ext]}

TxnDisks(p) == {EncryptedDisk(p)}

(* CDB::Rewrite removes wallet.dat before it renames the copy: a node that   *)
(* dies in between finds no file and makes a new wallet.                     *)
DiesInRewrite ==
  /\ crashes < MaxCrash
  /\ Start(FreshDisk(0))
  /\ crashes' = crashes + 1
  /\ lost' = TRUE
  /\ UNCHANGED nKeys

(* Nothing in the file is encrypted, or it has a key to try a passphrase on. *)
Openable(d) ==
  d.mkeys = <<>> \/ \E k \in DOMAIN d.ckeys : d.ckeys[k] # Empty

(* The encrypted file of a wallet without keys gets its first from the pool. *)
EncryptWallet(p) ==
  LET m == EncryptedMem(p)
      d == EncryptedDisk(p)
      opens == {mk \in Candidates(m, p) : KeyStoreUnlocks(m, mk)}
  IN
  /\ ~stopping /\ ~mem.crypto
  /\ Len(mem.mkeys) < MaxMaster /\ nKeys + PoolSize <= MaxKeys
  /\ \/ /\ \/ \E mk \in opens :
                 LET u == [Unlocked(m, mk) EXCEPT !.pool = {}]
                     e == [AllExpanded(m, d, mk) EXCEPT !.pool = {}]
                     r == PoolFilled(u, e, PoolSize)
                 IN  Perform(Lock(PoolAdded(u, PoolSize), r), r,
                             TxnDisks(p) \cup {e} \cup PoolDisks(u, e, PoolSize),
                             nKeys + PoolSize, timer, TRUE)
           \/ /\ opens = {} \/ m.mkeys[1] # p
              /\ Perform([m EXCEPT !.pool = {}], [d EXCEPT !.pool = {}], TxnDisks(p),
                         nKeys, timer, TRUE)
        /\ lost' = (lost \/ ~Openable(disk'))
     \/ DiesInRewrite

(* The dialog's Unlock.                                                      *)
UnlockDialog(p) ==
  /\ ~stopping /\ ~mem.locking /\ IsLocked(mem)
  /\ \E mk \in Candidates(mem, p) :
       /\ KeyStoreUnlocks(mem, mk)
       /\ Perform(Unlocked(mem, mk), AllExpanded(mem, disk, mk),
                  ExpandDisks(mem, disk, mk), nKeys, timer, stopping)

(* RPCRunLater re-arms the one timer of that name; a handler that is already *)
(* queued stays.                                                             *)
RPCRunLaterOnlyCancels(t) == [t EXCEPT !.armed = ~t.armed]
RPCRunLater(t) == [t EXCEPT !.armed = TRUE]

(* walletpassphrase: Unlock, TopUpKeyPool to PoolSize + 1 keys, the timer.   *)
walletpassphrase(p) ==
  /\ ~stopping /\ IsLocked(mem)
  /\ \E mk \in Candidates(mem, p) :
       LET u == Unlocked(mem, mk)
           d == AllExpanded(mem, disk, mk)
           n == IF Cardinality(mem.pool) <= PoolSize
                THEN PoolSize + 1 - Cardinality(mem.pool) ELSE 0
       IN
       /\ KeyStoreUnlocks(mem, mk)
       /\ nKeys + n <= MaxKeys
       /\ Perform(PoolAdded(u, n), PoolFilled(u, d, n),
                  ExpandDisks(mem, disk, mk) \cup PoolDisks(u, d, n),
                  nKeys + n, [RPCRunLater(timer) EXCEPT !.until = TRUE], stopping)

(* walletlock; the timer is left armed.                                      *)
walletlock ==
  /\ ~stopping /\ mem.crypto /\ ~IsLocked(mem)
  /\ mem' = Lock(mem, disk)
  /\ timer' = [timer EXCEPT !.until = FALSE]
  /\ UNCHANGED <<disk, nKeys, stopping, crashes>>

(* The dialog's Lock, up to the end of its cs_wallet.  (If the wallet is     *)
(* locked by another while it waits for cs_wallet, it changes nothing yet.)  *)
LockDialog ==
  /\ ~stopping /\ mem.crypto /\ ~mem.locking /\ ~IsLocked(mem)
  /\ mem' = [mem EXCEPT !.sx = disk.sx, !.ext = ExtKeyLock(mem),
                        !.locking = TRUE, !.raced = FALSE]
  /\ UNCHANGED <<disk, nKeys, timer, stopping, crashes>>

(* Its LockKeyStore, which takes cs_KeyStore only.                           *)
LockKeyStore ==
  /\ mem.locking
  /\ mem' = [mem EXCEPT !.master = NoMaster, !.locking = FALSE]
  /\ UNCHANGED <<disk, nKeys, timer, stopping, crashes>>

(* The time is over: the handler waits for cs_wallet and can no longer be    *)
(* cancelled.                                                                *)
Expire ==
  /\ timer.armed /\ timer.queued < MaxQueued
  /\ timer' = [timer EXCEPT !.armed = FALSE, !.queued = @ + 1]
  /\ UNCHANGED <<mem, disk, nKeys, stopping, crashes, lost>>

LockWallet ==
  /\ timer.queued > 0
  /\ timer' = [timer EXCEPT !.queued = @ - 1, !.until = FALSE]
  /\ mem' = Lock(mem, disk)
  /\ UNCHANGED <<disk, nKeys, stopping, crashes, lost>>

(* ChangeWalletPassphrase locks, checks the old passphrase, expands what it  *)
(* can and writes the master key under the new one.  It does not unlock the  *)
(* extended keys.  The dialog locks the wallet first, so it ends locked.     *)
ChangeWalletPassphrase(old, new, rpc) ==
  LET l == Lock(mem, disk) IN
  /\ ~stopping /\ mem.crypto /\ (rpc \/ ~mem.locking)
  /\ \E mk \in Candidates(l, old) :
       IF KeyStoreUnlocks(l, mk)
       THEN LET u == [UnlockStealthAddresses(l, mk) EXCEPT !.mkeys = [@ EXCEPT ![1] = new]]
                d == [AllExpanded(l, disk, mk) EXCEPT !.mkeys = u.mkeys]
            IN  Perform(IF rpc /\ ~IsLocked(mem) THEN u ELSE Lock(u, d), d,
                        ExpandDisks(l, disk, mk), nKeys, timer, stopping)
       ELSE /\ mem' = l
            /\ UNCHANGED <<disk, nKeys, timer, stopping, crashes>>

(* importprivkey: EnsureWalletIsUnlocked, AddKeyPubKey.                      *)
ImportKey ==
  /\ ~stopping /\ ~IsLocked(mem) /\ nKeys < MaxKeys
  /\ Perform(AddKeys(mem, Fresh(1)), WriteKeys(mem, disk, Fresh(1)), {},
             nKeys + 1, timer, stopping)

(* The memory keeps the plain spend secret, the file gets it encrypted.      *)
AddStealthAddress(a) ==
  /\ ~stopping /\ ~IsLocked(mem) /\ a \notin DOMAIN mem.sx
  /\ Perform([mem EXCEPT !.sx = With(@, {a}, Plain), !.raced = @ \/ mem.locking],
             [disk EXCEPT !.sx =
                With(@, {a}, IF mem.crypto THEN mem.master ELSE Plain)],
             {}, nKeys, timer, stopping)

(* FindStealthTransactions: a payment to a stealth address of the wallet.    *)
(* A locked wallet writes the key without its secret, then the metadata from *)
(* which the secret can be made.  One that the dialog is locking has no      *)
(* spend secret to use: the payment is passed over.                          *)
ReceiveLocked(a) ==
  LET k == nKeys + 1
      d == [disk EXCEPT !.ckeys = With(@, {k}, Empty)]
  IN
  /\ nKeys < MaxKeys
  /\ IsLocked(mem) /\ a \in DOMAIN mem.sx
  /\ Perform([mem EXCEPT !.ckeys = With(@, {k}, Empty), !.meta = With(@, {k}, a)],
             [d EXCEPT !.meta = With(@, {k}, a)],
             {d}, k, timer, stopping)

ReceiveUnlocked(a) ==
  /\ nKeys < MaxKeys
  /\ ~IsLocked(mem) /\ a \in DOMAIN mem.sx /\ mem.sx[a] = Plain
  /\ Perform(AddKeys(mem, Fresh(1)), WriteKeys(mem, disk, Fresh(1)), {},
             nKeys + 1, timer, stopping)

Restart == Start(disk) /\ UNCHANGED <<nKeys, crashes>>

Commands ==
  \/ \E p \in Passphrases : UnlockDialog(p)
  \/ \E p \in Passphrases : walletpassphrase(p)
  \/ walletlock
  \/ LockDialog
  \/ LockKeyStore
  \/ \E old, new \in Passphrases, rpc \in BOOLEAN :
       ChangeWalletPassphrase(old, new, rpc)
  \/ ImportKey
  \/ \E a \in StealthAddrs : AddStealthAddress(a)

Payments ==
  \/ \E a \in StealthAddrs : ReceiveLocked(a)
  \/ \E a \in StealthAddrs : ReceiveUnlocked(a)

Next ==
  \/ \E p \in Passphrases : EncryptWallet(p)
  \/ Expire
  \/ LockWallet
  \/ (Commands \/ Payments \/ Restart) /\ UNCHANGED lost

Spec == Init /\ [][Next]_vars

(* The clock runs and the RPC threads take the handlers that are due.        *)
FairSpec == Spec /\ WF_vars(Expire) /\ WF_vars(LockWallet)

-----------------------------------------------------------------------------
Secrets == Empty .. Garbage

(* The variables have their types.                                           *)
KeyStoreTypeOK ==
  /\ nKeys \in 0..MaxKeys
  /\ mem.crypto \in BOOLEAN /\ mem.master \in 0..Garbage
  /\ \A w \in {mem, disk} :
       /\ w.keys \subseteq 1..MaxKeys /\ w.pool \subseteq 1..MaxKeys
       /\ DOMAIN w.ckeys \subseteq 1..MaxKeys
       /\ \A k \in DOMAIN w.ckeys : w.ckeys[k] \in Secrets \ {Plain}
       /\ DOMAIN w.sx \subseteq StealthAddrs
       /\ \A a \in DOMAIN w.sx : w.sx[a] \in Secrets \ {Empty}
       /\ \A k \in DOMAIN w.meta : k \in 1..MaxKeys /\ w.meta[k] \in StealthAddrs
       /\ Len(w.mkeys) <= MaxMaster
  /\ timer.queued \in 0..MaxQueued /\ timer.armed \in BOOLEAN
  /\ timer.until \in BOOLEAN /\ stopping \in BOOLEAN /\ crashes \in 0..MaxCrash
  /\ mem.locking \in BOOLEAN /\ mem.raced \in BOOLEAN /\ lost \in BOOLEAN

(* A locked wallet has no secret in memory: no plain key, no spend secret of *)
(* a stealth address, no private half of an extended key, whichever way it   *)
(* came to be locked (Lock, ExtKeyLock, a failed or finished change of the   *)
(* passphrase, a restart), unless a command has opened one between the two   *)
(* halves of the dialog's Lock.                                              *)
LockedHoldsNoSecret ==
  IsLocked(mem) /\ ~stopping /\ ~mem.raced =>
    /\ mem.keys = {}
    /\ \A a \in DOMAIN mem.sx : mem.sx[a] # Plain
    /\ \A e \in ExtKeys : ~mem.ext[e].key

(* While the wallet is unlocked, every spend secret is decrypted and every   *)
(* key that came in while it was locked has its secret, whether Unlock or    *)
(* ChangeWalletPassphrase has unlocked it (after a crash, every such key     *)
(* whose metadata was written); not while the dialog is locking it.          *)
UnlockedIsUsable ==
  mem.crypto /\ ~IsLocked(mem) /\ ~stopping /\ ~mem.locking =>
    /\ \A a \in DOMAIN mem.sx : mem.sx[a] = Plain
    /\ \A k \in DOMAIN mem.ckeys :
         crashes = 0 \/ k \in DOMAIN mem.meta => mem.ckeys[k] # Empty

(* A step that unlocks the wallet unlocks all its extended keys too, those   *)
(* of the accounts included, also after a lock, a change of the passphrase,  *)
(* a restart or a crash.  (ChangeWalletPassphrase of an unlocked wallet      *)
(* locks them and leaves them so: the wallet is not locked before it.)       *)
UnlockOpensExtKeys ==
  [][~lost' /\ IsLocked(mem) /\ mem'.crypto /\ ~IsLocked(mem') =>
       \A e \in ExtKeys : mem'.ext[e].key]_vars

(* wallet.dat is never half encrypted, wherever EncryptWallet or a later     *)
(* write is cut off: without a master key nothing in it is encrypted, with   *)
(* one nothing is plain.                                                     *)
EncryptedAllOrNothing ==
  IF disk.mkeys = <<>>
  THEN DOMAIN disk.ckeys = {} /\ \A x \in DOMAIN disk.sx : disk.sx[x] = Plain
                              /\ \A e \in ExtKeys : disk.ext[e] = Plain
  ELSE disk.keys = {} /\ \A x \in DOMAIN disk.sx : disk.sx[x] # Plain
                      /\ \A e \in ExtKeys : disk.ext[e] # Plain

(* Whatever is encrypted in wallet.dat is under the one master key that      *)
(* Unlock decrypts, and a key without a secret has the metadata from which   *)
(* UnlockStealthAddresses makes it, unless a crash fell between the two      *)
(* writes.                                                                   *)
SecretsRecoverable ==
  /\ \A k \in DOMAIN disk.ckeys :
       \/ disk.ckeys[k] = 1 /\ disk.mkeys # <<>>
       \/ /\ disk.ckeys[k] = Empty
          /\ \/ k \in DOMAIN disk.meta /\ disk.meta[k] \in DOMAIN disk.sx
             \/ crashes > 0
  /\ \A a \in DOMAIN disk.sx : disk.sx[a] \in {Plain, 1}
  /\ \A e \in ExtKeys : disk.ext[e] \in {Plain, 1}

(* Memory and wallet.dat hold the same keys with the same ciphertexts, so    *)
(* that a restart loses none, and every key ever written is among them: no   *)
(* operation drops one, and none that is cut off.                            *)
MemoryIsSaved ==
  /\ mem.keys = disk.keys /\ mem.ckeys = disk.ckeys
  /\ mem.mkeys = disk.mkeys /\ mem.pool = disk.pool
  /\ DOMAIN disk.meta \subseteq DOMAIN mem.meta
  /\ 1..nKeys = KeysOf(disk)

(* The passphrase of an encrypted wallet unlocks it, at any time: there is a *)
(* key with a secret that CCryptoKeyStore::Unlock can try the master key on, *)
(* and all such keys are under that master key.                              *)
PassphraseUnlocks == mem.crypto => Len(mem.mkeys) = 1 /\ KeyStoreUnlocks(mem, 1)

(* A node that starts on a wallet.dat with a master key runs with an         *)
(* encrypted wallet.                                                         *)
RestartsEncrypted == disk.mkeys # <<>> => Load(disk).crypto

(* An unlocking by walletpassphrase ends: as long as the time it runs to is  *)
(* set and the wallet unlocked, the wallet will be locked again.             *)
UnlockEnds == (timer.until /\ ~IsLocked(mem)) ~> IsLocked(mem)

(* wallet.dat is sound after every write: wherever the node dies, the file   *)
(* is a plain or an encrypted wallet, starts as such, and has all that       *)
(* memory has and all that is needed to recover every secret; except where   *)
(* EncryptWallet dies in CDB::Rewrite, or leaves a wallet that had no key    *)
(* without one.                                                              *)
WalletFileSound ==
  ~lost => /\ KeyStoreTypeOK /\ EncryptedAllOrNothing /\ RestartsEncrypted
           /\ SecretsRecoverable /\ MemoryIsSaved

(* Locked and unlocked mean what they say: a locked wallet has no secret and *)
(* can be unlocked with its passphrase, an unlocked one has all of them.     *)
LockState ==
  ~lost => LockedHoldsNoSecret /\ UnlockedIsUsable /\ PassphraseUnlocks

(* An unlocking is complete when it begins and does not last.                *)
UnlockWorks == UnlockOpensExtKeys /\ UnlockEnds
=============================================================================
