--------------------------- MODULE KeyStoreProofs ---------------------------
(***************************************************************************)
(* What is proved of KeyStore for every number of keys, passphrases,       *)
(* stealth addresses, restarts and crashes: wallet.dat is sound at every   *)
(* point where the node may die, locked and unlocked mean what they say,   *)
(* and an unlocking opens the extended keys too.                           *)
(*                                                                         *)
(* The file is in one of two modes, PlainFile and CryptedFile, and the     *)
(* wallet in memory in one of three, PlainMem, LockedMem and UnlockedMem;  *)
(* the invariant StoreInv says which records each mode has and that the    *)
(* modes agree.  DiskOK and MemOK are predicates of a file and of a wallet *)
(* and not of the state, because a command goes through several of each:   *)
(* one lemma per operation of the key store says what it makes of a sound  *)
(* pair, PerformOK that a command made of such operations keeps the        *)
(* invariant whether it ends or dies at any of its writes, and LoadOK that *)
(* the next start finds a sound wallet.                                    *)
(*                                                                         *)
(* Openable is the part of the invariant that the modes do not give: with   *)
(* a key to try it on, the key store of a restarted node is an encrypted one *)
(* and a wrong passphrase is told from the right one.  EncryptWallet of a    *)
(* wallet without keys goes through files that lack it, so the lemmas on the *)
(* operations ask for it only where they use it.                             *)
(***************************************************************************)
EXTENDS KeyStore, FiniteSetTheorems, TLAPS

-----------------------------------------------------------------------------
(* The records of wallet.dat and of the wallet in memory.                    *)
IsDisk(d) ==
  d = [keys |-> d.keys, ckeys |-> d.ckeys, sx |-> d.sx, meta |-> d.meta,
       mkeys |-> d.mkeys, pool |-> d.pool, ext |-> d.ext]

IsMem(m) ==
  m = [crypto |-> m.crypto, master |-> m.master, locking |-> m.locking,
       raced |-> m.raced, keys |-> m.keys, ckeys |-> m.ckeys, sx |-> m.sx,
       meta |-> m.meta, mkeys |-> m.mkeys, pool |-> m.pool, ext |-> m.ext]

IsExt(x) == x = [cipher |-> x.cipher, key |-> x.key]

-----------------------------------------------------------------------------
(* A file with the keys 1..n, before (c = 0) or after a crash.               *)
FileShape(d, n) ==
  /\ IsDisk(d)
  /\ d.keys \subseteq 1..n /\ d.pool \subseteq 1..n
  /\ DOMAIN d.ckeys \subseteq 1..n
  /\ DOMAIN d.meta \subseteq DOMAIN d.ckeys
  /\ DOMAIN d.sx \subseteq StealthAddrs
  /\ \A k \in DOMAIN d.meta : d.meta[k] \in DOMAIN d.sx

PlainFile(d) ==
  /\ d.mkeys = <<>> /\ DOMAIN d.ckeys = {}
  /\ \A a \in DOMAIN d.sx : d.sx[a] = Plain
  /\ \A e \in ExtKeys : d.ext[e] = Plain

CryptedFile(d) ==
  /\ \E p \in Passphrases : d.mkeys = <<p>>
  /\ d.keys = {}
  /\ \A k \in DOMAIN d.ckeys : d.ckeys[k] \in {1, Empty}
  /\ \A a \in DOMAIN d.sx : d.sx[a] = 1
  /\ \A e \in ExtKeys : d.ext[e] = 1

DiskOK(d, n, c) ==
  /\ FileShape(d, n)
  /\ PlainFile(d) \/ CryptedFile(d)
  /\ 1..n = KeysOf(d)
  /\ c = 0 => \A k \in DOMAIN d.ckeys : d.ckeys[k] = Empty => k \in DOMAIN d.meta

(* The wallet in memory, against the file.                                   *)
MemShape(m, d) ==
  /\ IsMem(m) /\ m.locking \in BOOLEAN /\ m.raced \in BOOLEAN
  /\ m.keys = d.keys /\ m.ckeys = d.ckeys /\ m.mkeys = d.mkeys /\ m.pool = d.pool
  /\ DOMAIN m.sx = DOMAIN d.sx
  /\ DOMAIN d.meta \subseteq DOMAIN m.meta
  /\ DOMAIN m.meta \subseteq DOMAIN m.ckeys
  /\ \A k \in DOMAIN m.meta : m.meta[k] \in DOMAIN m.sx
  /\ \A e \in ExtKeys : IsExt(m.ext[e])

PlainMem(m, d) ==
  /\ m.crypto = FALSE /\ d.mkeys = <<>> /\ m.master = NoMaster
  /\ \A a \in DOMAIN m.sx : m.sx[a] = Plain
  /\ \A e \in ExtKeys : m.ext[e].cipher = Plain /\ m.ext[e].key = TRUE

(* What the dialog's Lock has closed stays closed, but for a race.           *)
Closed(m, s) ==
  ~m.raced => /\ \A a \in DOMAIN m.sx : m.sx[a] = 1
              /\ ~s => \A e \in ExtKeys : m.ext[e].key = FALSE

CryptedMem(m, d, s) ==
  /\ m.crypto = TRUE /\ d.mkeys # <<>>
  /\ \A a \in DOMAIN m.sx : m.sx[a] \in {Plain, 1}
  /\ ~s => \A e \in ExtKeys : m.ext[e].cipher = 1

LockedMem(m, d, s) ==
  CryptedMem(m, d, s) /\ m.master = NoMaster /\ Closed(m, s)

Usable(m, c) ==
  /\ \A a \in DOMAIN m.sx : m.sx[a] = Plain
  /\ \A k \in DOMAIN m.ckeys :
       c = 0 \/ k \in DOMAIN m.meta => m.ckeys[k] # Empty

UnlockedMem(m, d, s, c) ==
  /\ CryptedMem(m, d, s) /\ m.master = 1
  /\ IF m.locking THEN Closed(m, s) ELSE Usable(m, c)

MemOK(m, d, s, c) ==
  /\ MemShape(m, d)
  /\ PlainMem(m, d) \/ LockedMem(m, d, s) \/ UnlockedMem(m, d, s, c)

TimerOK(t) ==
  /\ t = [armed |-> t.armed, queued |-> t.queued, until |-> t.until]
  /\ t.armed \in BOOLEAN /\ t.queued \in 0..MaxQueued /\ t.until \in BOOLEAN

(* The inductive invariant, of a wallet that has not been lost.              *)
StoreInv ==
  /\ nKeys \in 0..MaxKeys /\ crashes \in 0..MaxCrash /\ stopping \in BOOLEAN
  /\ TimerOK(timer)
  /\ timer.armed \/ timer.queued > 0 => mem.crypto
  /\ DiskOK(disk, nKeys, crashes) /\ Openable(disk)
  /\ MemOK(mem, disk, stopping, crashes)

WalletInv == lost \in BOOLEAN /\ (~lost => StoreInv)

-----------------------------------------------------------------------------
(* The fields of what the key store's operations make of a wallet.           *)
LEMMA LockFields ==
  ASSUME NEW m, IsMem(m), NEW d, ~IsLocked(m)
  PROVE  Lock(m, d) =
           [crypto |-> m.crypto, master |-> NoMaster, locking |-> m.locking,
            raced |-> FALSE, keys |-> m.keys, ckeys |-> m.ckeys,
            sx |-> d.sx, meta |-> m.meta, mkeys |-> m.mkeys,
            pool |-> m.pool, ext |-> ExtKeyLock(m)]
<1> DEFINE x == ExtKeyLock(m)
<1> DEFINE f == FALSE
<1> DEFINE u1 == [m EXCEPT !.sx = d.sx]
<1> DEFINE u2 == [u1 EXCEPT !.ext = x]
<1> DEFINE u3 == [u2 EXCEPT !.master = NoMaster]
<1> DEFINE u4 == [u3 EXCEPT !.raced = f]
<1>0. Lock(m, d) = u4
  BY DEF Lock
<1> HIDE DEF x, f
<1>1. u1 =
        [crypto |-> m.crypto, master |-> m.master, locking |-> m.locking,
         raced |-> m.raced, keys |-> m.keys, ckeys |-> m.ckeys,
         sx |-> d.sx, meta |-> m.meta, mkeys |-> m.mkeys,
         pool |-> m.pool, ext |-> m.ext]
  BY DEF IsMem
<1> HIDE DEF u1
<1>2. u2 =
        [crypto |-> m.crypto, master |-> m.master, locking |-> m.locking,
         raced |-> m.raced, keys |-> m.keys, ckeys |-> m.ckeys,
         sx |-> d.sx, meta |-> m.meta, mkeys |-> m.mkeys,
         pool |-> m.pool, ext |-> x]
  BY <1>1
<1> HIDE DEF u2
<1>3. u3 =
        [crypto |-> m.crypto, master |-> NoMaster, locking |-> m.locking,
         raced |-> m.raced, keys |-> m.keys, ckeys |-> m.ckeys,
         sx |-> d.sx, meta |-> m.meta, mkeys |-> m.mkeys,
         pool |-> m.pool, ext |-> x]
  BY <1>2
<1> HIDE DEF u3
<1>4. u4 =
        [crypto |-> m.crypto, master |-> NoMaster, locking |-> m.locking,
         raced |-> f, keys |-> m.keys, ckeys |-> m.ckeys,
         sx |-> d.sx, meta |-> m.meta, mkeys |-> m.mkeys,
         pool |-> m.pool, ext |-> x]
  BY <1>3
<1> HIDE DEF u4
<1> QED BY <1>0, <1>4 DEF x, f

(* The first half of the dialog's Lock.                                      *)
Locking(m, a, x, t, f) ==
  [m EXCEPT !.sx = a, !.ext = x, !.locking = t, !.raced = f]

(* Its fields, one by one.                                                   *)
LEMMA LockingFields ==
  ASSUME NEW m, IsMem(m), NEW a, NEW x, NEW t, NEW f
  PROVE  Locking(m, a, x, t, f) =
           [crypto |-> m.crypto, master |-> m.master, locking |-> t,
            raced |-> f, keys |-> m.keys, ckeys |-> m.ckeys,
            sx |-> a, meta |-> m.meta, mkeys |-> m.mkeys,
            pool |-> m.pool, ext |-> x]
<1> DEFINE u1 == [m EXCEPT !.sx = a]
           u2 == [u1 EXCEPT !.ext = x]
           u3 == [u2 EXCEPT !.locking = t]
           u4 == [u3 EXCEPT !.raced = f]
<1>0. Locking(m, a, x, t, f) = u4
  BY DEF Locking
<1>1. u1 =
        [crypto |-> m.crypto, master |-> m.master, locking |-> m.locking,
         raced |-> m.raced, keys |-> m.keys, ckeys |-> m.ckeys,
         sx |-> a, meta |-> m.meta, mkeys |-> m.mkeys,
         pool |-> m.pool, ext |-> m.ext]
  BY DEF IsMem
<1> HIDE DEF u1
<1>2. u2 =
        [crypto |-> m.crypto, master |-> m.master, locking |-> m.locking,
         raced |-> m.raced, keys |-> m.keys, ckeys |-> m.ckeys,
         sx |-> a, meta |-> m.meta, mkeys |-> m.mkeys,
         pool |-> m.pool, ext |-> x]
  BY <1>1
<1> HIDE DEF u2
<1>3. u3 =
        [crypto |-> m.crypto, master |-> m.master, locking |-> t,
         raced |-> m.raced, keys |-> m.keys, ckeys |-> m.ckeys,
         sx |-> a, meta |-> m.meta, mkeys |-> m.mkeys,
         pool |-> m.pool, ext |-> x]
  BY <1>2
<1> HIDE DEF u3
<1>4. u4 =
        [crypto |-> m.crypto, master |-> m.master, locking |-> t,
         raced |-> f, keys |-> m.keys, ckeys |-> m.ckeys,
         sx |-> a, meta |-> m.meta, mkeys |-> m.mkeys,
         pool |-> m.pool, ext |-> x]
  BY <1>3
<1> HIDE DEF u4
<1> QED BY <1>0, <1>4

(* UnlockStealthAddresses.                                                   *)
LEMMA UnlockStealthFields ==
  ASSUME NEW m, IsMem(m), NEW mk
  PROVE  UnlockStealthAddresses(m, mk) =
           [crypto |-> m.crypto, master |-> mk, locking |-> m.locking,
            raced |-> m.locking, keys |-> m.keys, ckeys |-> Filled(m.ckeys, Expandable(m, mk), mk),
            sx |-> DecryptedSx(m, mk), meta |-> m.meta, mkeys |-> m.mkeys,
            pool |-> m.pool, ext |-> m.ext]
<1> DEFINE u1 == [m EXCEPT !.master = mk]
<1> DEFINE u2 == [u1 EXCEPT !.sx = DecryptedSx(m, mk)]
<1> DEFINE u3 == [u2 EXCEPT !.ckeys = Filled(m.ckeys, Expandable(m, mk), mk)]
<1> DEFINE u4 == [u3 EXCEPT !.raced = m.locking]
<1>0. UnlockStealthAddresses(m, mk) = u4
  BY DEF UnlockStealthAddresses
<1>1. u1 =
        [crypto |-> m.crypto, master |-> mk, locking |-> m.locking,
         raced |-> m.raced, keys |-> m.keys, ckeys |-> m.ckeys,
         sx |-> m.sx, meta |-> m.meta, mkeys |-> m.mkeys,
         pool |-> m.pool, ext |-> m.ext]
  BY DEF IsMem
<1> HIDE DEF u1
<1>2. u2 =
        [crypto |-> m.crypto, master |-> mk, locking |-> m.locking,
         raced |-> m.raced, keys |-> m.keys, ckeys |-> m.ckeys,
         sx |-> DecryptedSx(m, mk), meta |-> m.meta, mkeys |-> m.mkeys,
         pool |-> m.pool, ext |-> m.ext]
  BY <1>1
<1> HIDE DEF u2
<1>3. u3 =
        [crypto |-> m.crypto, master |-> mk, locking |-> m.locking,
         raced |-> m.raced, keys |-> m.keys, ckeys |-> Filled(m.ckeys, Expandable(m, mk), mk),
         sx |-> DecryptedSx(m, mk), meta |-> m.meta, mkeys |-> m.mkeys,
         pool |-> m.pool, ext |-> m.ext]
  BY <1>2
<1> HIDE DEF u3
<1>4. u4 =
        [crypto |-> m.crypto, master |-> mk, locking |-> m.locking,
         raced |-> m.locking, keys |-> m.keys, ckeys |-> Filled(m.ckeys, Expandable(m, mk), mk),
         sx |-> DecryptedSx(m, mk), meta |-> m.meta, mkeys |-> m.mkeys,
         pool |-> m.pool, ext |-> m.ext]
  BY <1>3
<1> HIDE DEF u4
<1> QED BY <1>0, <1>4

(* EncryptWallet, in memory.                                                 *)
Crypted(m, t, a, b, c, x) ==
  [m EXCEPT !.crypto = t, !.mkeys = a, !.keys = b, !.ckeys = c, !.sx = x]

(* Its fields, one by one.                                                   *)
LEMMA EncryptedFields ==
  ASSUME NEW m, IsMem(m), NEW t, NEW a, NEW b, NEW c, NEW x
  PROVE  Crypted(m, t, a, b, c, x) =
           [crypto |-> t, master |-> m.master, locking |-> m.locking,
         raced |-> m.raced, keys |-> b, ckeys |-> c,
            sx |-> x, meta |-> m.meta, mkeys |-> a, pool |-> m.pool,
            ext |-> m.ext]
<1> DEFINE u1 == [m EXCEPT !.crypto = t]
<1> DEFINE u2 == [u1 EXCEPT !.mkeys = a]
<1> DEFINE u3 == [u2 EXCEPT !.keys = b]
<1> DEFINE u4 == [u3 EXCEPT !.ckeys = c]
<1> DEFINE u5 == [u4 EXCEPT !.sx = x]
<1>0. Crypted(m, t, a, b, c, x) = u5
  BY DEF Crypted
<1>1. u1 =
        [crypto |-> t, master |-> m.master, locking |-> m.locking,
         raced |-> m.raced, keys |-> m.keys,
         ckeys |-> m.ckeys, sx |-> m.sx, meta |-> m.meta, mkeys |-> m.mkeys,
         pool |-> m.pool, ext |-> m.ext]
  BY DEF IsMem
<1> HIDE DEF u1
<1>2. u2 =
        [crypto |-> t, master |-> m.master, locking |-> m.locking,
         raced |-> m.raced, keys |-> m.keys,
         ckeys |-> m.ckeys, sx |-> m.sx, meta |-> m.meta, mkeys |-> a,
         pool |-> m.pool, ext |-> m.ext]
  BY <1>1
<1> HIDE DEF u2
<1>3. u3 =
        [crypto |-> t, master |-> m.master, locking |-> m.locking,
         raced |-> m.raced, keys |-> b, ckeys |-> m.ckeys,
         sx |-> m.sx, meta |-> m.meta, mkeys |-> a, pool |-> m.pool,
         ext |-> m.ext]
  BY <1>2
<1> HIDE DEF u3
<1>4. u4 =
        [crypto |-> t, master |-> m.master, locking |-> m.locking,
         raced |-> m.raced, keys |-> b, ckeys |-> c,
         sx |-> m.sx, meta |-> m.meta, mkeys |-> a, pool |-> m.pool,
         ext |-> m.ext]
  BY <1>3
<1> HIDE DEF u4
<1>5. u5 =
        [crypto |-> t, master |-> m.master, locking |-> m.locking,
         raced |-> m.raced, keys |-> b, ckeys |-> c,
         sx |-> x, meta |-> m.meta, mkeys |-> a, pool |-> m.pool,
         ext |-> m.ext]
  BY <1>4
<1> HIDE DEF u5
<1> QED BY <1>0, <1>5

(* EncryptWallet, in wallet.dat.                                             *)
LEMMA EncryptedFileFields ==
  ASSUME NEW d, IsDisk(d), NEW a, NEW b, NEW c, NEW x, NEW y
  PROVE  [d EXCEPT !.mkeys = a, !.keys = b, !.ckeys = c, !.sx = x, !.ext = y] =
           [keys |-> b, ckeys |-> c, sx |-> x, meta |-> d.meta, mkeys |-> a,
            pool |-> d.pool, ext |-> y]
<1> DEFINE u1 == [d EXCEPT !.mkeys = a]
<1> DEFINE u2 == [u1 EXCEPT !.keys = b]
<1> DEFINE u3 == [u2 EXCEPT !.ckeys = c]
<1> DEFINE u4 == [u3 EXCEPT !.sx = x]
<1> DEFINE u5 == [u4 EXCEPT !.ext = y]
<1>0. [d EXCEPT !.mkeys = a, !.keys = b, !.ckeys = c, !.sx = x, !.ext = y] = u5
  OBVIOUS
<1>1. u1 =
        [keys |-> d.keys, ckeys |-> d.ckeys, sx |-> d.sx, meta |-> d.meta,
         mkeys |-> a, pool |-> d.pool, ext |-> d.ext]
  BY DEF IsDisk
<1> HIDE DEF u1
<1>2. u2 =
        [keys |-> b, ckeys |-> d.ckeys, sx |-> d.sx, meta |-> d.meta,
         mkeys |-> a, pool |-> d.pool, ext |-> d.ext]
  BY <1>1
<1> HIDE DEF u2
<1>3. u3 =
        [keys |-> b, ckeys |-> c, sx |-> d.sx, meta |-> d.meta, mkeys |-> a,
         pool |-> d.pool, ext |-> d.ext]
  BY <1>2
<1> HIDE DEF u3
<1>4. u4 =
        [keys |-> b, ckeys |-> c, sx |-> x, meta |-> d.meta, mkeys |-> a,
         pool |-> d.pool, ext |-> d.ext]
  BY <1>3
<1> HIDE DEF u4
<1>5. u5 =
        [keys |-> b, ckeys |-> c, sx |-> x, meta |-> d.meta, mkeys |-> a,
         pool |-> d.pool, ext |-> y]
  BY <1>4
<1> HIDE DEF u5
<1> QED BY <1>0, <1>5

(* The keys that are given their secret, in wallet.dat.                      *)
LEMMA ExpandedFields ==
  ASSUME NEW d, IsDisk(d), NEW K, NEW E, NEW mk
  PROVE  ExpandedDisk(d, K, E, mk) =
           [keys |-> d.keys, ckeys |-> Filled(d.ckeys, K, mk), sx |-> d.sx,
            meta |-> Without(d.meta, E), mkeys |-> d.mkeys, pool |-> d.pool,
            ext |-> d.ext]
<1> DEFINE u1 == [d EXCEPT !.ckeys = Filled(d.ckeys, K, mk)]
<1> DEFINE u2 == [u1 EXCEPT !.meta = Without(d.meta, E)]
<1>0. ExpandedDisk(d, K, E, mk) = u2
  BY DEF ExpandedDisk
<1>1. u1 =
        [keys |-> d.keys, ckeys |-> Filled(d.ckeys, K, mk), sx |-> d.sx,
         meta |-> d.meta, mkeys |-> d.mkeys, pool |-> d.pool, ext |-> d.ext]
  BY DEF IsDisk
<1> HIDE DEF u1
<1>2. u2 =
        [keys |-> d.keys, ckeys |-> Filled(d.ckeys, K, mk), sx |-> d.sx,
         meta |-> Without(d.meta, E), mkeys |-> d.mkeys, pool |-> d.pool,
         ext |-> d.ext]
  BY <1>1
<1> HIDE DEF u2
<1> QED BY <1>0, <1>2

(* A ckey record, which erases the key record.                               *)
LEMMA WriteCryptedFields ==
  ASSUME NEW d, IsDisk(d), NEW m, m.crypto, NEW K
  PROVE  WriteKeys(m, d, K) =
           [keys |-> d.keys \ K, ckeys |-> With(d.ckeys, K, m.master),
            sx |-> d.sx, meta |-> d.meta, mkeys |-> d.mkeys,
            pool |-> d.pool, ext |-> d.ext]
<1> DEFINE u1 == [d EXCEPT !.ckeys = With(d.ckeys, K, m.master)]
<1> DEFINE u2 == [u1 EXCEPT !.keys = d.keys \ K]
<1>0. WriteKeys(m, d, K) = u2
  BY DEF WriteKeys
<1>1. u1 =
        [keys |-> d.keys, ckeys |-> With(d.ckeys, K, m.master), sx |-> d.sx,
         meta |-> d.meta, mkeys |-> d.mkeys, pool |-> d.pool, ext |-> d.ext]
  BY DEF IsDisk
<1> HIDE DEF u1
<1>2. u2 =
        [keys |-> d.keys \ K, ckeys |-> With(d.ckeys, K, m.master),
         sx |-> d.sx, meta |-> d.meta, mkeys |-> d.mkeys, pool |-> d.pool,
         ext |-> d.ext]
  BY <1>1
<1> HIDE DEF u2
<1> QED BY <1>0, <1>2

(* A key without its secret and the metadata to make it from.                *)
LEMMA ReceivedFields ==
  ASSUME NEW m, IsMem(m), NEW x, NEW y
  PROVE  [m EXCEPT !.ckeys = x, !.meta = y] =
           [crypto |-> m.crypto, master |-> m.master, locking |-> m.locking,
         raced |-> m.raced, keys |-> m.keys,
            ckeys |-> x, sx |-> m.sx, meta |-> y, mkeys |-> m.mkeys,
            pool |-> m.pool, ext |-> m.ext]
<1> DEFINE u1 == [m EXCEPT !.ckeys = x]
<1> DEFINE u2 == [u1 EXCEPT !.meta = y]
<1>0. [m EXCEPT !.ckeys = x, !.meta = y] = u2
  OBVIOUS
<1>1. u1 =
        [crypto |-> m.crypto, master |-> m.master, locking |-> m.locking,
         raced |-> m.raced, keys |-> m.keys,
         ckeys |-> x, sx |-> m.sx, meta |-> m.meta, mkeys |-> m.mkeys,
         pool |-> m.pool, ext |-> m.ext]
  BY DEF IsMem
<1> HIDE DEF u1
<1>2. u2 =
        [crypto |-> m.crypto, master |-> m.master, locking |-> m.locking,
         raced |-> m.raced, keys |-> m.keys,
         ckeys |-> x, sx |-> m.sx, meta |-> y, mkeys |-> m.mkeys,
         pool |-> m.pool, ext |-> m.ext]
  BY <1>1
<1> HIDE DEF u2
<1> QED BY <1>0, <1>2

-----------------------------------------------------------------------------
(* The modes exclude each other, and follow the file's.                      *)
LEMMA ModeOfFile ==
  ASSUME NEW m, NEW d, NEW n, NEW s, NEW c, DiskOK(d, n, c), MemOK(m, d, s, c)
  PROVE  /\ m.crypto = FALSE => PlainMem(m, d) /\ PlainFile(d)
         /\ m.crypto = TRUE => CryptedFile(d) /\ ~PlainMem(m, d)
         /\ m.crypto \in BOOLEAN
<1>1. CASE PlainMem(m, d)
  <2>1. d.mkeys = <<>> /\ m.crypto = FALSE
    BY <1>1 DEF PlainMem
  <2>2. ~CryptedFile(d)
    BY <2>1 DEF CryptedFile
  <2> QED BY <1>1, <2>1, <2>2 DEF DiskOK
<1>2. CASE LockedMem(m, d, s) \/ UnlockedMem(m, d, s, c)
  <2>1. d.mkeys # <<>> /\ m.crypto = TRUE
    BY <1>2 DEF LockedMem, UnlockedMem, CryptedMem
  <2>2. ~PlainFile(d)
    BY <2>1 DEF PlainFile
  <2> QED BY <1>2, <2>1, <2>2 DEF DiskOK, PlainMem
<1> QED BY <1>1, <1>2 DEF MemOK

(* A node that starts on a sound file has a plain or a locked wallet.        *)
LEMMA LoadOK ==
  ASSUME NEW d, NEW n, NEW c, DiskOK(d, n, c), Openable(d)
  PROVE  /\ MemOK(Load(d), d, FALSE, c)
         /\ ~UnlockedMem(Load(d), d, FALSE, c)
         /\ Load(d).master = NoMaster
<1> DEFINE m == Load(d)
<1>1. /\ m.master = NoMaster /\ m.keys = d.keys /\ m.ckeys = d.ckeys
      /\ m.sx = d.sx /\ m.meta = d.meta /\ m.mkeys = d.mkeys /\ m.pool = d.pool
      /\ m.locking = FALSE /\ m.raced = FALSE
  BY DEF Load
<1>2. IsMem(m)
  BY DEF Load, IsMem
<1>3. m.ext = [e \in ExtKeys |-> [cipher |-> d.ext[e], key |-> d.ext[e] = Plain]]
  BY Zenon DEF Load
<1>4. m.crypto = (DOMAIN d.ckeys # {})
  BY Zenon DEF Load
<1> HIDE DEF m
<1>5. \A e \in ExtKeys : /\ IsExt(m.ext[e])
                         /\ m.ext[e].cipher = d.ext[e]
                         /\ m.ext[e].key = (d.ext[e] = Plain)
  BY <1>3 DEF IsExt
<1>6. MemShape(m, d)
  BY <1>1, <1>2, <1>5 DEF MemShape, DiskOK, FileShape
<1>9. ~UnlockedMem(m, d, FALSE, c)
  BY <1>1 DEF UnlockedMem, NoMaster
<1>7. CASE PlainFile(d)
  <2>1. m.crypto = FALSE
    BY <1>4, <1>7 DEF PlainFile
  <2>2. PlainMem(m, d)
    BY <1>1, <1>5, <1>7, <2>1 DEF PlainFile, PlainMem
  <2> QED BY <1>1, <1>6, <2>2, <1>9 DEF MemOK, m
<1>8. CASE CryptedFile(d)
  <2>1. m.crypto = TRUE
    <3>1. DOMAIN d.ckeys # {}
      BY <1>8 DEF CryptedFile, Openable
    <3> QED BY <1>4, <3>1
  <2>2. \A e \in ExtKeys : d.ext[e] = 1 /\ d.ext[e] # Plain
    BY <1>8 DEF CryptedFile, Plain
  <2>3. \A e \in ExtKeys : m.ext[e].cipher = 1 /\ m.ext[e].key = FALSE
    BY <1>5, <2>2
  <2>4. d.mkeys # <<>>
    BY <1>8 DEF CryptedFile
  <2>5. LockedMem(m, d, FALSE)
    BY <1>1, <1>8, <2>1, <2>3, <2>4 DEF CryptedFile, LockedMem, CryptedMem, Closed
  <2> QED BY <1>1, <1>6, <2>5, <1>9 DEF MemOK, m
<1> QED BY <1>7, <1>8 DEF DiskOK

(* The private half of an extended key, replaced.                            *)
LEMMA ExtFields ==
  ASSUME NEW x, IsExt(x), NEW b
  PROVE  [x EXCEPT !.key = b] = [cipher |-> x.cipher, key |-> b]
  BY DEF IsExt

(* ExtKeyLock forgets the private half of every encrypted extended key.      *)
LEMMA ExtLocked ==
  ASSUME NEW m, NEW e \in ExtKeys, IsExt(m.ext[e])
  PROVE  /\ IsExt(ExtKeyLock(m)[e])
         /\ ExtKeyLock(m)[e].cipher = m.ext[e].cipher
         /\ m.ext[e].cipher # Plain => ExtKeyLock(m)[e].key = FALSE
<1>1. CASE e = "master" \/ IsCryptedExt(m.ext[e])
  <2>1. ExtKeyLock(m)[e] = [m.ext[e] EXCEPT !.key = FALSE]
    BY <1>1 DEF ExtKeyLock
  <2>2. ExtKeyLock(m)[e] = [cipher |-> m.ext[e].cipher, key |-> FALSE]
    BY <2>1, ExtFields, Zenon
  <2> QED BY <2>2 DEF IsExt
<1>2. CASE ~(e = "master" \/ IsCryptedExt(m.ext[e]))
  <2>1. ExtKeyLock(m)[e] = m.ext[e]
    BY <1>2 DEF ExtKeyLock
  <2> QED BY <1>2, <2>1 DEF IsCryptedExt
<1> QED BY <1>1, <1>2

(* ExtKeyUnlock decrypts the extended keys under the master key.             *)
LEMMA ExtUnlocked ==
  ASSUME NEW m, NEW mk, NEW e \in ExtKeys, IsExt(m.ext[e])
  PROVE  /\ IsExt(ExtKeyUnlock(m, mk)[e])
         /\ ExtKeyUnlock(m, mk)[e].cipher = m.ext[e].cipher
         /\ m.ext[e].cipher # Plain /\ m.ext[e].cipher = mk
              => ExtKeyUnlock(m, mk)[e].key = TRUE
<1>1. CASE IsCryptedExt(m.ext[e])
  <2> DEFINE b == m.ext[e].key \/ m.ext[e].cipher = mk
  <2>1. ExtKeyUnlock(m, mk)[e] = [m.ext[e] EXCEPT !.key = b]
    BY <1>1 DEF ExtKeyUnlock
  <2>2. m.ext[e].cipher = mk => b = TRUE
    OBVIOUS
  <2> HIDE DEF b
  <2>3. ExtKeyUnlock(m, mk)[e] = [cipher |-> m.ext[e].cipher, key |-> b]
    BY <2>1, ExtFields, Zenon
  <2> QED BY <2>2, <2>3 DEF IsExt
<1>2. CASE ~IsCryptedExt(m.ext[e])
  <2>1. ExtKeyUnlock(m, mk)[e] = m.ext[e]
    BY <1>2 DEF ExtKeyUnlock
  <2> QED BY <1>2, <2>1 DEF IsCryptedExt
<1> QED BY <1>1, <1>2

(* Locking an encrypted wallet leaves no secret in it.                       *)
LEMMA LockOK ==
  ASSUME NEW m, NEW d, NEW n, NEW s, NEW c,
         DiskOK(d, n, c), MemOK(m, d, s, c), m.crypto = TRUE
  PROVE  /\ MemOK(Lock(m, d), d, s, c)
         /\ LockedMem(Lock(m, d), d, s)
<1>0. MemShape(m, d) /\ CryptedFile(d) /\ ~PlainMem(m, d)
  BY ModeOfFile DEF MemOK
<1>1. CASE IsLocked(m)
  <2>1. Lock(m, d) = m
    BY <1>1 DEF Lock
  <2>2. ~UnlockedMem(m, d, s, c)
    BY <1>1 DEF IsLocked, UnlockedMem, NoMaster
  <2> QED BY <1>0, <2>1, <2>2 DEF MemOK
<1>2. CASE ~IsLocked(m)
  <2> DEFINE l == Lock(m, d)
  <2>1. l = [crypto |-> m.crypto, master |-> NoMaster, locking |-> m.locking,
             raced |-> FALSE, keys |-> m.keys, ckeys |-> m.ckeys,
             sx |-> d.sx, meta |-> m.meta, mkeys |-> m.mkeys,
             pool |-> m.pool, ext |-> ExtKeyLock(m)]
    BY <1>0, <1>2, LockFields DEF MemShape
  <2>2. ~LockedMem(m, d, s)
    BY <1>2 DEF IsLocked, LockedMem
  <2>3. UnlockedMem(m, d, s, c)
    BY <1>0, <2>2 DEF MemOK
  <2> HIDE DEF l
  <2>4. /\ l.master = NoMaster /\ l.keys = m.keys /\ l.ckeys = m.ckeys
        /\ l.sx = d.sx /\ l.meta = m.meta /\ l.mkeys = m.mkeys
        /\ l.pool = m.pool /\ l.ext = ExtKeyLock(m) /\ IsMem(l)
        /\ l.locking = m.locking /\ l.raced = FALSE
    BY <2>1 DEF IsMem
  <2>5. l.crypto = TRUE
    BY <2>1
  <2>6. \A e \in ExtKeys : IsExt(m.ext[e])
    BY <1>0 DEF MemShape
  <2>7. \A e \in ExtKeys : /\ IsExt(l.ext[e])
                           /\ l.ext[e].cipher = m.ext[e].cipher
                           /\ m.ext[e].cipher # Plain => l.ext[e].key = FALSE
    <3>1. l.ext = ExtKeyLock(m)
      BY <2>4
    <3>2. \A e \in ExtKeys : /\ IsExt(ExtKeyLock(m)[e])
                             /\ ExtKeyLock(m)[e].cipher = m.ext[e].cipher
                             /\ m.ext[e].cipher # Plain => ExtKeyLock(m)[e].key = FALSE
      BY <2>6, ExtLocked, Zenon
    <3> QED BY <3>1, <3>2, Zenon
  <2>8. MemShape(l, d)
    BY <1>0, <2>4, <2>7 DEF MemShape
  <2>9. ~s => \A e \in ExtKeys : l.ext[e].cipher = 1 /\ l.ext[e].key = FALSE
    BY <2>3, <2>7 DEF UnlockedMem, CryptedMem, Plain
  <2>10. d.mkeys # <<>> /\ \A a \in DOMAIN l.sx : l.sx[a] = 1
    BY <1>0, <2>4 DEF CryptedFile
  <2> QED BY <2>4, <2>5, <2>8, <2>9, <2>10 DEF MemOK, LockedMem, CryptedMem, Closed, l
<1> QED BY <1>1, <1>2

(* The passphrase yields the one master key, or none that passes.            *)
LEMMA OneMaster ==
  ASSUME NEW m, NEW d, NEW n, NEW s, NEW c, NEW p,
         DiskOK(d, n, c), Openable(d), MemOK(m, d, s, c), m.crypto = TRUE
  PROVE  /\ KeyStoreUnlocks(m, 1)
         /\ \A mk \in Candidates(m, p) : KeyStoreUnlocks(m, mk) => mk = 1
<1>0. m.ckeys = d.ckeys /\ m.mkeys = d.mkeys /\ CryptedFile(d)
  BY ModeOfFile DEF MemOK, MemShape
<1>1. /\ \A k \in DOMAIN m.ckeys : m.ckeys[k] \in {1, Empty}
      /\ \E k \in DOMAIN m.ckeys : m.ckeys[k] # Empty
  BY <1>0 DEF CryptedFile, Openable
<1>2. PICK k \in DOMAIN m.ckeys : m.ckeys[k] = 1 /\ m.ckeys[k] # Empty
  BY <1>1
<1>3. KeyStoreUnlocks(m, 1)
  BY <1>1, <1>2 DEF KeyStoreUnlocks
<1>4. \A mk : KeyStoreUnlocks(m, mk) => mk = 1
  BY <1>2 DEF KeyStoreUnlocks
<1> QED BY <1>3, <1>4

(* A sound file stays sound when keys are given their secret, before or      *)
(* after the metadata of each is erased.                                     *)
LEMMA ExpandedOK ==
  ASSUME NEW d, NEW n, NEW c, DiskOK(d, n, c), CryptedFile(d),
         NEW K, NEW E, E \subseteq K
  PROVE  /\ DiskOK(ExpandedDisk(d, K, E, 1), n, c)
         /\ CryptedFile(ExpandedDisk(d, K, E, 1))
         /\ Openable(d) => Openable(ExpandedDisk(d, K, E, 1))
<1> DEFINE x == ExpandedDisk(d, K, E, 1)
<1>1. x = [keys |-> d.keys, ckeys |-> Filled(d.ckeys, K, 1), sx |-> d.sx,
           meta |-> Without(d.meta, E), mkeys |-> d.mkeys, pool |-> d.pool,
           ext |-> d.ext]
  BY ExpandedFields DEF DiskOK, FileShape
<1> HIDE DEF x
<1>2. /\ x.keys = d.keys /\ x.sx = d.sx /\ x.mkeys = d.mkeys
      /\ x.pool = d.pool /\ x.ext = d.ext /\ IsDisk(x)
      /\ x.ckeys = Filled(d.ckeys, K, 1) /\ x.meta = Without(d.meta, E)
  BY <1>1 DEF IsDisk
<1>3. /\ DOMAIN x.ckeys = DOMAIN d.ckeys
      /\ \A k \in DOMAIN d.ckeys : x.ckeys[k] = IF k \in K THEN 1 ELSE d.ckeys[k]
  BY <1>2 DEF Filled
<1>4. /\ DOMAIN x.meta = DOMAIN d.meta \ E
      /\ \A k \in DOMAIN x.meta : x.meta[k] = d.meta[k]
  BY <1>2 DEF Without
<1>5. FileShape(x, n)
  BY <1>2, <1>3, <1>4 DEF DiskOK, FileShape
<1>6. CryptedFile(x)
  <2>1. \A k \in DOMAIN x.ckeys : x.ckeys[k] \in {1, Empty}
    BY <1>3 DEF CryptedFile
  <2> QED BY <1>2, <2>1 DEF CryptedFile
<1>7. \A k \in DOMAIN x.ckeys : x.ckeys[k] = Empty => k \notin K /\ d.ckeys[k] = Empty
  BY <1>3 DEF Empty
<1>8. /\ 1..n = KeysOf(x)
      /\ c = 0 => \A k \in DOMAIN x.ckeys : x.ckeys[k] = Empty => k \in DOMAIN x.meta
  BY <1>2, <1>3, <1>4, <1>7 DEF DiskOK, KeysOf
<1>9. Openable(d) => Openable(x)
  BY <1>2, <1>3 DEF Openable, Empty
<1> QED BY <1>5, <1>6, <1>8, <1>9 DEF DiskOK, x

(* What UnlockStealthAddresses makes of a locked wallet and its file.        *)
LEMMA UnlockOK ==
  ASSUME NEW m, NEW d, NEW n, NEW s, NEW c,
         DiskOK(d, n, c), MemOK(m, d, s, c), LockedMem(m, d, s)
  PROVE  LET e == AllExpanded(m, d, 1)
             v == UnlockStealthAddresses(m, 1)
             u == Unlocked(m, 1)
         IN  /\ DiskOK(e, n, c) /\ e.mkeys = d.mkeys /\ e.sx = d.sx
             /\ Openable(d) => Openable(e)
             /\ MemOK(v, e, s, c) /\ UnlockedMem(v, e, s, c)
             /\ MemOK(u, e, s, c) /\ UnlockedMem(u, e, s, c)
             /\ ~s => \A x \in ExtKeys : u.ext[x].key = TRUE
<1> DEFINE U == Expandable(m, 1)
           e == AllExpanded(m, d, 1)
           v == UnlockStealthAddresses(m, 1)
           u == Unlocked(m, 1)
<1>0. MemShape(m, d) /\ CryptedFile(d) /\ m.crypto = TRUE
  BY ModeOfFile DEF MemOK, LockedMem, CryptedMem
<1>1. DiskOK(e, n, c) /\ CryptedFile(e) /\ (Openable(d) => Openable(e))
  BY <1>0, ExpandedOK DEF AllExpanded
<1>2. e = [keys |-> d.keys, ckeys |-> Filled(d.ckeys, U, 1), sx |-> d.sx,
           meta |-> Without(d.meta, U), mkeys |-> d.mkeys, pool |-> d.pool,
           ext |-> d.ext]
  BY ExpandedFields DEF DiskOK, FileShape, AllExpanded
<1>3. v = [crypto |-> m.crypto, master |-> 1, locking |-> m.locking,
           raced |-> m.locking, keys |-> m.keys, ckeys |-> Filled(m.ckeys, U, 1),
           sx |-> DecryptedSx(m, 1), meta |-> m.meta, mkeys |-> m.mkeys,
           pool |-> m.pool, ext |-> m.ext]
  BY <1>0, UnlockStealthFields DEF MemShape
<1>4. u = [v EXCEPT !.ext = ExtKeyUnlock(m, 1)]
  BY DEF Unlocked
<1> HIDE DEF v
<1>5. u = [crypto |-> m.crypto, master |-> 1, locking |-> m.locking,
           raced |-> m.locking, keys |-> m.keys, ckeys |-> Filled(m.ckeys, U, 1),
           sx |-> DecryptedSx(m, 1), meta |-> m.meta, mkeys |-> m.mkeys,
           pool |-> m.pool, ext |-> ExtKeyUnlock(m, 1)]
  BY <1>3, <1>4
<1>6. /\ \A a \in DOMAIN m.sx : DecryptedSx(m, 1)[a] = Plain
      /\ DOMAIN DecryptedSx(m, 1) = DOMAIN m.sx
  BY DEF LockedMem, CryptedMem, DecryptedSx
<1>7. U = {k \in DOMAIN m.ckeys : m.ckeys[k] = Empty /\ k \in DOMAIN m.meta}
  BY <1>0, <1>6 DEF Expandable, MemShape
<1>8. /\ DOMAIN Filled(m.ckeys, U, 1) = DOMAIN m.ckeys
      /\ \A k \in DOMAIN m.ckeys :
           Filled(m.ckeys, U, 1)[k] = IF k \in U THEN 1 ELSE m.ckeys[k]
  BY DEF Filled
<1>9. DOMAIN Without(d.meta, U) \subseteq DOMAIN m.meta
  BY <1>0 DEF Without, MemShape
<1> HIDE DEF U, u, e
<1>10. /\ e.keys = d.keys /\ e.ckeys = Filled(d.ckeys, U, 1) /\ e.sx = d.sx
       /\ e.meta = Without(d.meta, U) /\ e.mkeys = d.mkeys /\ e.pool = d.pool
  BY <1>2
<1>11. ASSUME NEW w, NEW x,
              w = [crypto |-> m.crypto, master |-> 1, locking |-> m.locking,
                   raced |-> m.locking, keys |-> m.keys, ckeys |-> Filled(m.ckeys, U, 1),
                   sx |-> DecryptedSx(m, 1), meta |-> m.meta, mkeys |-> m.mkeys,
                   pool |-> m.pool, ext |-> x],
              \A y \in ExtKeys : IsExt(x[y]),
              \A y \in ExtKeys : x[y].cipher = m.ext[y].cipher
       PROVE  MemOK(w, e, s, c) /\ UnlockedMem(w, e, s, c)
  <2>1. /\ w.master = 1 /\ w.keys = m.keys /\ w.ckeys = Filled(m.ckeys, U, 1)
        /\ w.sx = DecryptedSx(m, 1) /\ w.meta = m.meta /\ w.mkeys = m.mkeys
        /\ w.pool = m.pool /\ w.ext = x /\ IsMem(w)
        /\ w.locking = m.locking /\ w.raced = m.locking
    BY <1>11 DEF IsMem
  <2>2. w.crypto = TRUE
    BY <1>0, <1>11
  <2>3. MemShape(w, e)
    BY <1>0, <1>6, <1>8, <1>9, <1>10, <1>11, <2>1 DEF MemShape
  <2>4. c = 0 => \A k \in DOMAIN m.ckeys : m.ckeys[k] = Empty => k \in DOMAIN m.meta
    BY <1>0 DEF DiskOK, MemShape
  <2>5. \A k \in DOMAIN w.ckeys : c = 0 \/ k \in DOMAIN w.meta => w.ckeys[k] # Empty
    BY <1>7, <1>8, <2>1, <2>4 DEF Empty
  <2>6. ~s => \A y \in ExtKeys : w.ext[y].cipher = 1
    BY <1>11, <2>1 DEF LockedMem, CryptedMem
  <2>7. UnlockedMem(w, e, s, c)
    <3>1. \A a \in DOMAIN w.sx : w.sx[a] = Plain
      BY <1>6, <2>1
    <3>2. CryptedMem(w, e, s)
      BY <1>10, <2>2, <2>6, <3>1 DEF CryptedMem, LockedMem
    <3>3. Usable(w, c)
      BY <2>5, <3>1 DEF Usable
    <3>4. w.locking => Closed(w, s)
      BY <2>1 DEF Closed
    <3> QED BY <2>1, <3>2, <3>3, <3>4 DEF UnlockedMem
  <2> QED BY <2>3, <2>7 DEF MemOK
<1>12. MemOK(v, e, s, c) /\ UnlockedMem(v, e, s, c)
  BY <1>0, <1>3, <1>11 DEF MemShape
<1>13. \A x \in ExtKeys :
         /\ IsExt(ExtKeyUnlock(m, 1)[x])
         /\ ExtKeyUnlock(m, 1)[x].cipher = m.ext[x].cipher
         /\ m.ext[x].cipher # Plain /\ m.ext[x].cipher = 1
              => ExtKeyUnlock(m, 1)[x].key = TRUE
  BY <1>0, ExtUnlocked DEF MemShape
<1>14. MemOK(u, e, s, c) /\ UnlockedMem(u, e, s, c)
  BY <1>5, <1>11, <1>13
<1>15. u.ext = ExtKeyUnlock(m, 1)
  BY <1>5
<1>16. ~s => \A x \in ExtKeys : u.ext[x].key = TRUE
  BY <1>13, <1>15 DEF LockedMem, CryptedMem, Plain
<1> QED BY <1>1, <1>10, <1>12, <1>14, <1>16 DEF e, u, v

(* Every content of wallet.dat on the way to the expanded file is sound.     *)
LEMMA ExpandDisksOK ==
  ASSUME NEW m, NEW d, NEW n, NEW c, DiskOK(d, n, c), CryptedFile(d)
  PROVE  \A x \in ExpandDisks(m, d, 1) : DiskOK(x, n, c) /\ (Openable(d) => Openable(x))
<1> DEFINE U == Expandable(m, 1)
<1> TAKE x \in ExpandDisks(m, d, 1)
<1>1. \/ \E K \in SUBSET U : x = ExpandedDisk(d, K, K, 1)
      \/ \E K \in SUBSET U, k \in U : x = ExpandedDisk(d, K, K \ {k}, 1)
  BY DEF ExpandDisks
<1>2. \E K, E : E \subseteq K /\ x = ExpandedDisk(d, K, E, 1)
  <2>1. CASE \E K \in SUBSET U : x = ExpandedDisk(d, K, K, 1)
    BY <2>1
  <2>2. CASE \E K \in SUBSET U, k \in U : x = ExpandedDisk(d, K, K \ {k}, 1)
    <3>1. PICK K \in SUBSET U, k \in U : x = ExpandedDisk(d, K, K \ {k}, 1)
      BY <2>2
    <3>2. K \ {k} \subseteq K
      OBVIOUS
    <3> QED BY <3>1, <3>2, Zenon
  <2> QED BY <1>1, <2>1, <2>2
<1> QED BY <1>2, ExpandedOK

(* After a crash less is asked of the file.                                  *)
LEMMA AfterCrash ==
  ASSUME NEW d, NEW n, NEW c, DiskOK(d, n, c), NEW c2, c2 # 0
  PROVE  DiskOK(d, n, c2)
BY DEF DiskOK

(* New keys, written to memory and to wallet.dat.                            *)
LEMMA KeysOK ==
  ASSUME NEW m, NEW d, NEW n, NEW s, NEW c,
         DiskOK(d, n, c), MemOK(m, d, s, c), ~LockedMem(m, d, s),
         NEW n2, NEW K, 1..n2 = 1..n \cup K
  PROVE  /\ DiskOK(WriteKeys(m, d, K), n2, c)
         /\ MemOK(AddKeys(m, K), WriteKeys(m, d, K), s, c)
         /\ ~LockedMem(AddKeys(m, K), WriteKeys(m, d, K), s)
         /\ UnlockedMem(m, d, s, c) =>
              UnlockedMem(AddKeys(m, K), WriteKeys(m, d, K), s, c)
         /\ Openable(d) => Openable(WriteKeys(m, d, K))
         /\ LockedMem(m, d, s) \/ K = {} \/ Openable(WriteKeys(m, d, K))
         /\ AddKeys(m, K).sx = m.sx /\ AddKeys(m, K).pool = m.pool
         /\ AddKeys(m, K).ext = m.ext /\ WriteKeys(m, d, K).pool = d.pool
<1> DEFINE x == WriteKeys(m, d, K)
           u == AddKeys(m, K)
<1>0. 1..n2 = 1..n \cup K
  OBVIOUS
<1>1. CASE PlainMem(m, d)
  <2>1. PlainFile(d) /\ m.crypto = FALSE
    BY <1>1, ModeOfFile DEF PlainMem
  <2>2. /\ x = [d EXCEPT !.keys = d.keys \cup K]
        /\ u = [m EXCEPT !.keys = m.keys \cup K]
    BY <2>1 DEF WriteKeys, AddKeys
  <2> HIDE DEF x, u
  <2>3. /\ x.keys = d.keys \cup K /\ x.ckeys = d.ckeys /\ x.sx = d.sx
        /\ x.meta = d.meta /\ x.mkeys = d.mkeys /\ x.pool = d.pool
        /\ x.ext = d.ext /\ IsDisk(x)
    BY <2>2 DEF IsDisk, DiskOK, FileShape
  <2>4. /\ u.keys = m.keys \cup K /\ u.ckeys = m.ckeys /\ u.sx = m.sx
        /\ u.meta = m.meta /\ u.mkeys = m.mkeys /\ u.pool = m.pool
        /\ u.ext = m.ext /\ u.master = m.master /\ IsMem(u)
        /\ u.locking = m.locking /\ u.raced = m.raced
    BY <2>2 DEF IsMem, MemOK, MemShape
  <2>5. u.crypto = FALSE
    <3>1. u.crypto = m.crypto
      BY <2>2 DEF IsMem, MemOK, MemShape
    <3> QED BY <2>1, <3>1
  <2>6. FileShape(x, n2)
    BY <1>0, <2>3 DEF DiskOK, FileShape
  <2>7. PlainFile(x)
    BY <2>1, <2>3 DEF PlainFile
  <2>8. /\ 1..n2 = KeysOf(x)
        /\ c = 0 => \A k \in DOMAIN x.ckeys : x.ckeys[k] = Empty => k \in DOMAIN x.meta
    BY <1>0, <2>3 DEF DiskOK, KeysOf
  <2>9. MemShape(u, x)
    BY <2>3, <2>4 DEF MemOK, MemShape
  <2>10. PlainMem(u, x)
    BY <1>1, <2>3, <2>4, <2>5 DEF PlainMem
  <2>11. ~LockedMem(u, x, s) /\ ~UnlockedMem(m, d, s, c)
    BY <1>1, <2>10 DEF PlainMem, LockedMem, UnlockedMem, CryptedMem
  <2>12. Openable(x)
    BY <2>7 DEF PlainFile, Openable
  <2> QED BY <2>3, <2>4, <2>6, <2>7, <2>8, <2>9, <2>10, <2>11, <2>12
          DEF DiskOK, MemOK, x, u
<1>2. CASE UnlockedMem(m, d, s, c)
  <2>1. CryptedFile(d) /\ m.crypto = TRUE /\ m.master = 1
    BY <1>2, ModeOfFile DEF UnlockedMem, CryptedMem
  <2>2. IsDisk(d) /\ m.crypto
    BY <2>1 DEF DiskOK, FileShape
  <2>3. /\ x = [keys |-> d.keys \ K, ckeys |-> With(d.ckeys, K, m.master),
                sx |-> d.sx, meta |-> d.meta, mkeys |-> d.mkeys,
                pool |-> d.pool, ext |-> d.ext]
    BY <2>2, WriteCryptedFields
  <2>4. u = [m EXCEPT !.ckeys = With(m.ckeys, K, m.master)]
    BY <2>1 DEF AddKeys
  <2> HIDE DEF x, u
  <2>5. /\ x.keys = d.keys \ K /\ x.ckeys = With(d.ckeys, K, m.master)
        /\ x.sx = d.sx /\ x.meta = d.meta /\ x.mkeys = d.mkeys
        /\ x.pool = d.pool /\ x.ext = d.ext /\ IsDisk(x)
    BY <2>3 DEF IsDisk
  <2>6. /\ u.keys = m.keys /\ u.ckeys = With(m.ckeys, K, m.master) /\ u.sx = m.sx
        /\ u.meta = m.meta /\ u.mkeys = m.mkeys /\ u.pool = m.pool
        /\ u.ext = m.ext /\ u.master = m.master /\ IsMem(u)
        /\ u.locking = m.locking /\ u.raced = m.raced
    BY <2>4 DEF IsMem, MemOK, MemShape
  <2>7. u.crypto = TRUE
    <3>1. u.crypto = m.crypto
      BY <2>4 DEF IsMem, MemOK, MemShape
    <3> QED BY <2>1, <3>1
  <2>8. m.ckeys = d.ckeys /\ d.keys = {}
    BY <2>1 DEF CryptedFile, MemOK, MemShape
  <2>9. /\ DOMAIN x.ckeys = K \cup DOMAIN d.ckeys
        /\ \A k \in DOMAIN x.ckeys : x.ckeys[k] = IF k \in K THEN 1 ELSE d.ckeys[k]
    BY <2>1, <2>5 DEF With
  <2>10. FileShape(x, n2)
    BY <1>0, <2>5, <2>8, <2>9 DEF DiskOK, FileShape
  <2>11. CryptedFile(x)
    <3>1. \A k \in DOMAIN x.ckeys : x.ckeys[k] \in {1, Empty}
      BY <2>1, <2>9 DEF CryptedFile
    <3> QED BY <2>1, <2>5, <3>1 DEF CryptedFile
  <2>12. /\ 1..n2 = KeysOf(x)
         /\ c = 0 => \A k \in DOMAIN x.ckeys : x.ckeys[k] = Empty => k \in DOMAIN x.meta
    <3>1. 1..n = DOMAIN d.ckeys /\ x.keys = {}
      BY <2>5, <2>8 DEF DiskOK, KeysOf
    <3>2. 1..n2 = KeysOf(x)
      BY <1>0, <2>9, <3>1, Zenon DEF KeysOf
    <3>3. \A k \in DOMAIN x.ckeys : x.ckeys[k] = Empty => k \in DOMAIN d.ckeys /\ d.ckeys[k] = Empty
      BY <2>9 DEF Empty
    <3> QED BY <2>5, <3>2, <3>3 DEF DiskOK
  <2>13. MemShape(u, x)
    BY <2>5, <2>6, <2>8, <2>9 DEF MemOK, MemShape
  <2>14. Usable(m, c) => Usable(u, c)
    BY <2>5, <2>6, <2>8, <2>9 DEF Usable, Empty
  <2>15. UnlockedMem(u, x, s, c)
    <3>1. CryptedMem(u, x, s)
      BY <1>2, <2>5, <2>6, <2>7 DEF UnlockedMem, CryptedMem
    <3>2. Closed(m, s) => Closed(u, s)
      BY <2>6 DEF Closed
    <3> QED BY <1>2, <2>6, <2>14, <3>1, <3>2 DEF UnlockedMem
  <2>16. ~LockedMem(u, x, s)
    BY <2>15 DEF LockedMem, UnlockedMem, NoMaster
  <2>17. Openable(d) => Openable(x)
    BY <2>5, <2>9 DEF Openable, Empty
  <2>18. K = {} \/ Openable(x)
    BY <2>9 DEF Openable, Empty
  <2> QED BY <2>5, <2>6, <2>10, <2>11, <2>12, <2>13, <2>15, <2>16,
            <2>17, <2>18
          DEF DiskOK, MemOK, x, u
<1> QED BY <1>1, <1>2 DEF MemOK

(* The key pool, replaced in memory and in wallet.dat.                       *)
LEMMA PoolOK ==
  ASSUME NEW d, NEW n \in Nat, NEW c, DiskOK(d, n, c),
         NEW P, P \subseteq 1..n
  PROVE  LET x == [d EXCEPT !.pool = P] IN
           /\ DiskOK(x, n, c)
           /\ CryptedFile(d) => CryptedFile(x)
           /\ Openable(d) <=> Openable(x)
           /\ \A m, s : MemOK(m, d, s, c) =>
                /\ MemOK([m EXCEPT !.pool = P], x, s, c)
                /\ LockedMem([m EXCEPT !.pool = P], x, s) <=> LockedMem(m, d, s)
                /\ UnlockedMem(m, d, s, c) => UnlockedMem([m EXCEPT !.pool = P], x, s, c)
                /\ [m EXCEPT !.pool = P].ext = m.ext
                /\ [m EXCEPT !.pool = P].pool = P
<1> DEFINE x == [d EXCEPT !.pool = P]
<1>1. /\ x.keys = d.keys /\ x.ckeys = d.ckeys /\ x.sx = d.sx /\ x.meta = d.meta
      /\ x.mkeys = d.mkeys /\ x.pool = P /\ x.ext = d.ext /\ IsDisk(x)
  BY DEF IsDisk, DiskOK, FileShape
<1> HIDE DEF x
<1>2. FileShape(x, n)
  BY <1>1 DEF DiskOK, FileShape
<1>3. PlainFile(d) => PlainFile(x)
  BY <1>1 DEF PlainFile
<1>4. CryptedFile(d) => CryptedFile(x)
  BY <1>1 DEF CryptedFile
<1>5. DiskOK(x, n, c)
  BY <1>1, <1>2, <1>3, <1>4 DEF DiskOK, KeysOf
<1>7. Openable(d) <=> Openable(x)
  BY <1>1 DEF Openable
<1>6. ASSUME NEW m, NEW s, MemOK(m, d, s, c)
      PROVE  LET u == [m EXCEPT !.pool = P] IN
               /\ MemOK(u, x, s, c)
               /\ LockedMem(u, x, s) <=> LockedMem(m, d, s)
               /\ UnlockedMem(m, d, s, c) => UnlockedMem(u, x, s, c)
               /\ u.ext = m.ext /\ u.pool = P
  <2> DEFINE u == [m EXCEPT !.pool = P]
  <2>1. /\ u.crypto = m.crypto /\ u.master = m.master /\ u.keys = m.keys
        /\ u.ckeys = m.ckeys /\ u.sx = m.sx /\ u.meta = m.meta
        /\ u.mkeys = m.mkeys /\ u.pool = P /\ u.ext = m.ext /\ IsMem(u)
        /\ u.locking = m.locking /\ u.raced = m.raced
    BY <1>6 DEF IsMem, MemOK, MemShape
  <2> HIDE DEF u
  <2>2. MemShape(u, x)
    BY <1>1, <1>6, <2>1 DEF MemOK, MemShape
  <2>3. PlainMem(u, x) <=> PlainMem(m, d)
    BY <1>1, <2>1 DEF PlainMem
  <2>4. LockedMem(u, x, s) <=> LockedMem(m, d, s)
    BY <1>1, <2>1 DEF LockedMem, CryptedMem, Closed
  <2>5. UnlockedMem(u, x, s, c) <=> UnlockedMem(m, d, s, c)
    BY <1>1, <2>1 DEF UnlockedMem, CryptedMem, Closed, Usable
  <2> QED BY <1>6, <2>1, <2>2, <2>3, <2>4, <2>5 DEF MemOK, u
<1> QED BY <1>4, <1>5, <1>6, <1>7 DEF x

(* The new keys of the pool, and every content of wallet.dat on the way.     *)
LEMMA PoolFilledOK ==
  ASSUME NEW m, NEW d, NEW s, NEW c, NEW k \in Nat, nKeys \in Nat,
         DiskOK(d, nKeys, c), MemOK(m, d, s, c), UnlockedMem(m, d, s, c)
  PROVE  /\ DiskOK(PoolFilled(m, d, k), nKeys + k, c)
         /\ MemOK(PoolAdded(m, k), PoolFilled(m, d, k), s, c)
         /\ UnlockedMem(PoolAdded(m, k), PoolFilled(m, d, k), s, c)
         /\ \A x \in PoolDisks(m, d, k) :
              \E i \in nKeys .. nKeys + k : DiskOK(x, i, c) /\ (Openable(d) => Openable(x))
         /\ Openable(d) => Openable(PoolFilled(m, d, k))
<1>0. ~LockedMem(m, d, s)
  BY DEF LockedMem, UnlockedMem, NoMaster
<1>1. ASSUME NEW i \in Nat
      PROVE  LET w == WriteKeys(m, d, Fresh(i))
                 a == AddKeys(m, Fresh(i))
             IN  /\ DiskOK(w, nKeys + i, c) /\ MemOK(a, w, s, c)
                 /\ UnlockedMem(a, w, s, c)
                 /\ a.pool = m.pool /\ a.ext = m.ext /\ w.pool = d.pool
                 /\ Openable(d) => Openable(w)
  <2> DEFINE n2 == nKeys + i
  <2>1. 1..n2 = 1..nKeys \cup Fresh(i)
    BY DEF Fresh
  <2> HIDE DEF n2
  <2>3. /\ DiskOK(WriteKeys(m, d, Fresh(i)), n2, c)
        /\ MemOK(AddKeys(m, Fresh(i)), WriteKeys(m, d, Fresh(i)), s, c)
        /\ UnlockedMem(AddKeys(m, Fresh(i)), WriteKeys(m, d, Fresh(i)), s, c)
        /\ AddKeys(m, Fresh(i)).pool = m.pool /\ AddKeys(m, Fresh(i)).ext = m.ext
        /\ WriteKeys(m, d, Fresh(i)).pool = d.pool
        /\ Openable(d) => Openable(WriteKeys(m, d, Fresh(i)))
    BY <1>0, <2>1, KeysOK
  <2> QED BY <2>3 DEF n2
<1>2. /\ d.pool \subseteq 1..nKeys /\ m.pool = d.pool
  BY DEF DiskOK, FileShape, MemOK, MemShape
<1>3. \A i, j \in Nat : j <= i => d.pool \cup Fresh(j) \subseteq 1 .. nKeys + i
  BY <1>2 DEF Fresh
<1>4. ASSUME NEW i \in Nat, NEW j \in Nat, j <= i
      PROVE  LET x == [WriteKeys(m, d, Fresh(i)) EXCEPT !.pool = d.pool \cup Fresh(j)]
             IN  DiskOK(x, nKeys + i, c) /\ (Openable(d) => Openable(x))
  <2>1. nKeys + i \in Nat
    OBVIOUS
  <2>2. d.pool \cup Fresh(j) \subseteq 1 .. nKeys + i
    BY <1>3, <1>4
  <2> QED BY <1>1, <2>1, <2>2, PoolOK
<1> DEFINE w == WriteKeys(m, d, Fresh(k))
           a == AddKeys(m, Fresh(k))
           P == d.pool \cup Fresh(k)
<1>5. /\ DiskOK(w, nKeys + k, c) /\ MemOK(a, w, s, c)
      /\ UnlockedMem(a, w, s, c)
      /\ a.pool = m.pool /\ a.ext = m.ext /\ w.pool = d.pool
      /\ Openable(d) => Openable(w)
  BY <1>1
<1>6. PoolFilled(m, d, k) = [w EXCEPT !.pool = P] /\ PoolAdded(m, k) = [a EXCEPT !.pool = P]
  BY <1>2, <1>5 DEF PoolFilled, PoolAdded
<1>7. P \subseteq 1 .. nKeys + k /\ nKeys + k \in Nat
  BY <1>3
<1> HIDE DEF w, a, P
<1>8. /\ DiskOK([w EXCEPT !.pool = P], nKeys + k, c)
      /\ MemOK([a EXCEPT !.pool = P], [w EXCEPT !.pool = P], s, c)
      /\ UnlockedMem([a EXCEPT !.pool = P], [w EXCEPT !.pool = P], s, c)
      /\ Openable(d) => Openable([w EXCEPT !.pool = P])
  BY <1>5, <1>7, PoolOK
<1>9. ASSUME NEW x \in PoolDisks(m, d, k)
      PROVE  \E i \in nKeys .. nKeys + k : DiskOK(x, i, c) /\ (Openable(d) => Openable(x))
  <2>1. PICK i \in 1..k :
          \/ x = [WriteKeys(m, d, Fresh(i)) EXCEPT
                    !.pool = WriteKeys(m, d, Fresh(i)).pool \cup Fresh(i)]
          \/ x = [WriteKeys(m, d, Fresh(i)) EXCEPT
                    !.pool = WriteKeys(m, d, Fresh(i)).pool \cup Fresh(i - 1)]
    BY <1>9 DEF PoolDisks
  <2>2. i \in Nat /\ i - 1 \in Nat /\ i - 1 <= i /\ i <= i
    OBVIOUS
  <2>3. WriteKeys(m, d, Fresh(i)).pool = d.pool
    BY <1>1, <2>2
  <2>4. DiskOK(x, nKeys + i, c) /\ (Openable(d) => Openable(x))
    BY <1>4, <2>1, <2>2, <2>3
  <2>5. nKeys + i \in nKeys .. nKeys + k
    OBVIOUS
  <2> QED BY <2>4, <2>5
<1> QED BY <1>5, <1>6, <1>8, <1>9

(* New keys leave the extended keys alone.                                   *)
LEMMA PoolAddedExt ==
  ASSUME NEW m, IsMem(m), NEW k
  PROVE  PoolAdded(m, k).ext = m.ext
<1> DEFINE a == AddKeys(m, Fresh(k))
<1>1. IsMem(a) /\ a.ext = m.ext
  <2>1. CASE m.crypto
    <3>1. a = [m EXCEPT !.ckeys = With(m.ckeys, Fresh(k), m.master)]
      BY <2>1 DEF AddKeys
    <3> QED BY <3>1 DEF IsMem
  <2>2. CASE ~m.crypto
    <3>1. a = [m EXCEPT !.keys = m.keys \cup Fresh(k)]
      BY <2>2 DEF AddKeys
    <3> QED BY <3>1 DEF IsMem
  <2> QED BY <2>1, <2>2
<1> HIDE DEF a
<1>2. [a EXCEPT !.pool = a.pool \cup Fresh(k)].ext = a.ext
  BY <1>1 DEF IsMem
<1> QED BY <1>1, <1>2 DEF PoolAdded, a

(* EncryptWallet makes of a plain wallet a sound encrypted one, locked.      *)
LEMMA EncryptOK ==
  ASSUME NEW p \in Passphrases, NEW n, NEW c,
         DiskOK(disk, n, c), MemOK(mem, disk, FALSE, c), mem.crypto = FALSE
  PROVE  /\ DiskOK(EncryptedDisk(p), n, c)
         /\ MemOK(EncryptedMem(p), EncryptedDisk(p), TRUE, c)
         /\ LockedMem(EncryptedMem(p), EncryptedDisk(p), TRUE)
         /\ EncryptedMem(p).mkeys = <<p>>
         /\ \A k \in DOMAIN EncryptedMem(p).ckeys : EncryptedMem(p).ckeys[k] = 1
<1> DEFINE m == EncryptedMem(p)
           d == EncryptedDisk(p)
<1>1. /\ PlainFile(disk) /\ PlainMem(mem, disk) /\ MemShape(mem, disk)
      /\ FileShape(disk, n)
  BY ModeOfFile DEF MemOK, DiskOK
<1>2. /\ mem.mkeys = <<>> /\ Len(mem.mkeys) + 1 = 1 /\ Append(mem.mkeys, p) = <<p>>
  BY <1>1 DEF MemShape, PlainFile
<1> DEFINE ck == [k \in mem.keys |-> 1]
           x == [a \in DOMAIN mem.sx |-> IF mem.sx[a] = Plain THEN 1 ELSE Garbage]
           y == [e \in ExtKeys |-> IF disk.ext[e] = Plain THEN 1 ELSE disk.ext[e]]
<1>3. m = [mem EXCEPT !.crypto = TRUE, !.mkeys = <<p>>, !.keys = {},
                      !.ckeys = ck, !.sx = x]
  BY <1>2, Zenon DEF EncryptedMem
<1> HIDE DEF m, ck, x, y
<1>4. m = [crypto |-> TRUE, master |-> mem.master, locking |-> mem.locking,
           raced |-> mem.raced, keys |-> {}, ckeys |-> ck,
           sx |-> x, meta |-> mem.meta, mkeys |-> <<p>>, pool |-> mem.pool,
           ext |-> mem.ext]
  <2>1. IsMem(mem)
    BY <1>1 DEF MemShape
  <2>2. m = Crypted(mem, TRUE, <<p>>, {}, ck, x)
    BY <1>3 DEF Crypted
  <2>3. \A t : Crypted(mem, t, <<p>>, {}, ck, x)
               = [crypto |-> t, master |-> mem.master, locking |-> mem.locking,
                  raced |-> mem.raced, keys |-> {}, ckeys |-> ck,
                  sx |-> x, meta |-> mem.meta, mkeys |-> <<p>>, pool |-> mem.pool,
                  ext |-> mem.ext]
    BY <2>1, EncryptedFields
  <2> QED BY <2>2, <2>3, Zenon
<1>5. /\ m.crypto = TRUE /\ m.master = mem.master /\ m.keys = {} /\ m.ckeys = ck
      /\ m.sx = x /\ m.meta = mem.meta /\ m.mkeys = <<p>> /\ m.pool = mem.pool
      /\ m.ext = mem.ext /\ IsMem(m)
      /\ m.locking = mem.locking /\ m.raced = mem.raced
  BY <1>4, Zenon DEF IsMem
<1>6. Len(m.mkeys) = 1
  BY <1>5
<1>7. d = [disk EXCEPT !.mkeys = <<p>>, !.keys = {}, !.ckeys = ck, !.sx = x, !.ext = y]
  BY <1>5, <1>6, Zenon DEF EncryptedDisk, m, y
<1> HIDE DEF d
<1>8. d = [keys |-> {}, ckeys |-> ck, sx |-> x, meta |-> disk.meta,
           mkeys |-> <<p>>, pool |-> disk.pool, ext |-> y]
  <2>1. IsDisk(disk)
    BY <1>1 DEF FileShape
  <2> QED BY <1>7, <2>1, EncryptedFileFields, ZenonT(60)
<1>9. /\ d.keys = {} /\ d.ckeys = ck /\ d.sx = x /\ d.meta = disk.meta
      /\ d.mkeys = <<p>> /\ d.pool = disk.pool /\ d.ext = y /\ IsDisk(d)
  BY <1>8 DEF IsDisk
<1>10. DOMAIN ck = disk.keys /\ \A k \in disk.keys : ck[k] = 1
  BY <1>1 DEF ck, MemShape
<1>11. DOMAIN x = DOMAIN disk.sx /\ \A a \in DOMAIN disk.sx : x[a] = 1
  BY <1>1 DEF x, MemShape, PlainMem
<1>12. \A e \in ExtKeys : y[e] = 1
  BY <1>1 DEF y, PlainFile
<1>13. /\ DOMAIN disk.meta = {} /\ DOMAIN mem.meta = {} /\ DOMAIN disk.ckeys = {}
  BY <1>1 DEF PlainFile, FileShape, MemShape
<1>14. FileShape(d, n)
  BY <1>1, <1>9, <1>10, <1>11, <1>13 DEF FileShape
<1>15. CryptedFile(d)
  BY <1>9, <1>10, <1>11, <1>12, <1>13 DEF CryptedFile
<1>16. /\ 1..n = KeysOf(d)
       /\ c = 0 => \A k \in DOMAIN d.ckeys : d.ckeys[k] = Empty => k \in DOMAIN d.meta
  BY <1>9, <1>10, <1>13 DEF DiskOK, Empty, KeysOf
<1>17. MemShape(m, d)
  BY <1>1, <1>5, <1>9, <1>10, <1>11, <1>13 DEF MemShape
<1>18. LockedMem(m, d, TRUE)
  <2>1. m.master = NoMaster /\ d.mkeys # <<>>
    BY <1>1, <1>5, <1>9 DEF PlainMem
  <2>2. \A a \in DOMAIN m.sx : m.sx[a] = 1
    BY <1>5, <1>11
  <2> QED BY <1>5, <2>1, <2>2 DEF LockedMem, CryptedMem, Closed
<1>19. \A k \in DOMAIN m.ckeys : m.ckeys[k] = 1
  BY <1>1, <1>5, <1>10 DEF MemShape
<1> QED BY <1>5, <1>19, <1>14, <1>15, <1>16, <1>17, <1>18 DEF DiskOK, MemOK, m, d

(* IsLocked tells the modes apart.                                           *)
LEMMA LockedIs ==
  ASSUME NEW m, NEW d, NEW s, NEW c, MemOK(m, d, s, c)
  PROVE  /\ IsLocked(m) <=> LockedMem(m, d, s)
         /\ m.crypto = TRUE /\ ~IsLocked(m) => UnlockedMem(m, d, s, c)
         /\ m.crypto = TRUE \/ m.crypto = FALSE
<1>1. PlainMem(m, d) => m.crypto = FALSE /\ ~IsLocked(m) /\ ~LockedMem(m, d, s)
  BY DEF PlainMem, IsLocked, LockedMem, CryptedMem
<1>2. LockedMem(m, d, s) => m.crypto = TRUE /\ IsLocked(m)
  BY DEF LockedMem, CryptedMem, IsLocked
<1>3. UnlockedMem(m, d, s, c) => m.crypto = TRUE /\ ~IsLocked(m) /\ ~LockedMem(m, d, s)
  BY DEF UnlockedMem, CryptedMem, IsLocked, LockedMem, NoMaster
<1> QED BY <1>1, <1>2, <1>3 DEF MemOK

(* The keys that an operation has added when it dies.                        *)
LEMMA AddedKeys ==
  ASSUME NEW a \in Nat, NEW b \in Nat, a <= b
  PROVE  a + Cardinality(1..b \ 1..a) = b
<1>0. a + 1 \in Int /\ b \in Int
  OBVIOUS
<1>1. 1..b \ 1..a = a + 1 .. b
  OBVIOUS
<1>2. Cardinality(a + 1 .. b) = IF a + 1 > b THEN 0 ELSE b - (a + 1) + 1
  BY <1>0, FS_Interval
<1> DEFINE x == Cardinality(1..b \ 1..a)
<1>3. x = IF a + 1 > b THEN 0 ELSE b - (a + 1) + 1
  BY <1>1, <1>2, Zenon
<1> HIDE DEF x
<1>4. a + x = b
  BY <1>3
<1> QED BY <1>4 DEF x

(* A file that an operation may leave behind: sound, and with i keys.        *)
Left(x, n) == \E i \in nKeys..n : DiskOK(x, i, crashes + 1)

(* A file with the keys of now, or with more.                                *)
LEMMA LeftOK ==
  ASSUME NEW x, NEW n, NEW i \in nKeys..n, DiskOK(x, i, crashes), crashes \in Nat
  PROVE  Left(x, n)
<1>1. crashes + 1 # 0
  OBVIOUS
<1>2. DiskOK(x, i, crashes + 1)
  BY <1>1, AfterCrash
<1> QED BY <1>2 DEF Left

(* A node that starts on such a file.                                        *)
LEMMA StartOK ==
  ASSUME StoreInv, crashes < MaxCrash, NEW n \in 0..MaxKeys, NEW x,
         Left(x, n), Openable(x), Start(x),
         nKeys' = nKeys + Cardinality(KeysOf(x) \ 1..nKeys),
         crashes' = crashes + 1
  PROVE  StoreInv' /\ mem'.master = NoMaster
<1>1. PICK i \in nKeys..n : DiskOK(x, i, crashes + 1)
  BY DEF Left
<1>2. crashes + 1 \in 0..MaxCrash /\ nKeys \in Nat /\ i \in Nat /\ nKeys <= i
      /\ i \in 0..MaxKeys
  BY KeyStoreAssumption DEF StoreInv
<1>3. KeysOf(x) = 1..i
  BY <1>1 DEF DiskOK
<1>4. nKeys' = i
  BY <1>2, <1>3, AddedKeys
<1>5. /\ MemOK(Load(x), x, FALSE, crashes + 1)
      /\ Load(x).master = NoMaster
  BY <1>1, LoadOK
<1>6. /\ mem' = Load(x) /\ disk' = x /\ timer' = Idle /\ stopping' = FALSE
  BY DEF Start
<1>7. TimerOK(Idle) /\ Idle.queued = 0 /\ Idle.armed = FALSE
  BY KeyStoreAssumption DEF TimerOK, Idle
<1>8. TimerOK(timer') /\ ~(timer'.armed \/ timer'.queued > 0)
  BY <1>6, <1>7
<1>9. /\ nKeys' \in 0..MaxKeys /\ crashes' \in 0..MaxCrash
      /\ stopping' \in BOOLEAN
      /\ DiskOK(disk', nKeys', crashes') /\ Openable(disk')
      /\ MemOK(mem', disk', stopping', crashes')
      /\ mem'.master = NoMaster
  BY <1>1, <1>2, <1>4, <1>5, <1>6
<1> QED BY <1>8, <1>9 DEF StoreInv

(* An operation that ends with a sound wallet and a sound file, and that     *)
(* goes through sound files only, keeps the invariant, and so does a crash,  *)
(* if the file is Openable in the end.                                       *)
LEMMA PerformKeeps ==
  ASSUME StoreInv, NEW m, NEW d, NEW D, NEW n \in 0..MaxKeys, NEW t,
         NEW s \in BOOLEAN, nKeys <= n, TimerOK(t),
         t.armed \/ t.queued > 0 => m.crypto,
         DiskOK(d, n, crashes), MemOK(m, d, s, crashes),
         \A x \in D : Left(x, n),
         Perform(m, d, D, n, t, s), Openable(disk')
  PROVE  StoreInv' /\ (mem' = m \/ mem'.master = NoMaster)
<1>1. CASE /\ mem' = m /\ disk' = d /\ nKeys' = n /\ timer' = t /\ stopping' = s
           /\ UNCHANGED crashes
  BY <1>1 DEF StoreInv
<1>2. ASSUME crashes < MaxCrash, NEW x \in D \cup {disk, d}, Start(x),
             nKeys' = nKeys + Cardinality(KeysOf(x) \ 1..nKeys),
             crashes' = crashes + 1
      PROVE  StoreInv' /\ mem'.master = NoMaster
  <2>1. crashes + 1 # 0 /\ nKeys \in nKeys..n /\ n \in nKeys..n
    BY DEF StoreInv
  <2>2. DiskOK(disk, nKeys, crashes + 1) /\ DiskOK(d, n, crashes + 1)
    BY <2>1, AfterCrash DEF StoreInv
  <2>3. Left(disk, n) /\ Left(d, n)
    BY <2>1, <2>2 DEF Left
  <2>4. Left(x, n)
    BY <1>2, <2>3
  <2>5. Openable(x)
    BY <1>2 DEF Start
  <2> QED BY <1>2, <2>4, <2>5, StartOK
<1> QED BY <1>1, <1>2 DEF Perform

(* It is, if no file on the way is not.                                      *)
LEMMA PerformOK ==
  ASSUME StoreInv, NEW m, NEW d, NEW D, NEW n \in 0..MaxKeys, NEW t,
         NEW s \in BOOLEAN, nKeys <= n, TimerOK(t),
         t.armed \/ t.queued > 0 => m.crypto,
         DiskOK(d, n, crashes), Openable(d), MemOK(m, d, s, crashes),
         \A x \in D : Left(x, n) /\ Openable(x),
         Perform(m, d, D, n, t, s)
  PROVE  StoreInv' /\ (mem' = m \/ mem'.master = NoMaster)
<1>1. Openable(disk)
  BY DEF StoreInv
<1>2. disk' \in D \cup {disk, d}
  BY DEF Perform, Start
<1>3. Openable(disk')
  BY <1>1, <1>2
<1> QED BY <1>3, PerformKeeps

-----------------------------------------------------------------------------
(* A step that unlocks the wallet decrypts every extended key.               *)
OpensExtKeys ==
  IsLocked(mem) /\ mem'.crypto /\ ~IsLocked(mem') =>
    \A e \in ExtKeys : mem'.ext[e].key

(* EncryptWallet keeps the invariant, unless it loses the wallet.            *)
LEMMA EncryptStep ==
  ASSUME StoreInv, NEW p \in Passphrases, EncryptWallet(p)
  PROVE  (~lost' => StoreInv') /\ OpensExtKeys
<1> DEFINE m == EncryptedMem(p)
           d == EncryptedDisk(p)
           u0 == Unlocked(m, 1)
           e0 == AllExpanded(m, d, 1)
           u == [u0 EXCEPT !.pool = {}]
           e == [e0 EXCEPT !.pool = {}]
           r == PoolFilled(u, e, PoolSize)
           f == PoolAdded(u, PoolSize)
           n == nKeys + PoolSize
           D == TxnDisks(p) \cup {e} \cup PoolDisks(u, e, PoolSize)
<1>1. /\ nKeys \in Nat /\ n \in 0..MaxKeys /\ nKeys <= n /\ n \in Nat
      /\ stopping = FALSE /\ crashes \in Nat /\ nKeys \in nKeys..n
  BY KeyStoreAssumption DEF EncryptWallet, StoreInv
<1>2. DiskOK(disk, nKeys, crashes) /\ MemOK(mem, disk, FALSE, crashes)
  BY <1>1 DEF StoreInv
<1>3. mem.crypto = FALSE
  BY <1>2, LockedIs DEF EncryptWallet
<1>4. /\ DiskOK(d, nKeys, crashes) /\ MemOK(m, d, TRUE, crashes)
      /\ LockedMem(m, d, TRUE) /\ m.mkeys = <<p>>
      /\ \A k \in DOMAIN m.ckeys : m.ckeys[k] = 1
  BY <1>2, <1>3, EncryptOK
<1>5. Candidates(m, p) = {1} /\ m.mkeys[1] = p
  <2>1. m.mkeys # <<>> /\ m.mkeys[1] = p
    BY <1>4
  <2> QED BY <2>1 DEF Candidates
<1>6. KeyStoreUnlocks(m, 1)
  BY <1>4 DEF KeyStoreUnlocks, Empty
<1>7. {mk \in Candidates(m, p) : KeyStoreUnlocks(m, mk)} = {1}
  BY <1>5, <1>6
<1> SUFFICES ASSUME ~lost' PROVE StoreInv'
  <2>1. ~IsLocked(mem)
    BY <1>3 DEF IsLocked
  <2> QED BY <2>1 DEF OpensExtKeys
<1>8. Perform(Lock(f, r), r, D, n, timer, TRUE) /\ Openable(disk')
  <2> DEFINE opens == {mk \in Candidates(m, p) : KeyStoreUnlocks(m, mk)}
  <2>1. /\ \/ \E mk \in opens :
               LET w == [Unlocked(m, mk) EXCEPT !.pool = {}]
                   x == [AllExpanded(m, d, mk) EXCEPT !.pool = {}]
                   y == PoolFilled(w, x, PoolSize)
               IN  Perform(Lock(PoolAdded(w, PoolSize), y), y,
                           TxnDisks(p) \cup {x} \cup PoolDisks(w, x, PoolSize),
                           nKeys + PoolSize, timer, TRUE)
           \/ opens = {} \/ m.mkeys[1] # p
        /\ lost' = (lost \/ ~Openable(disk'))
    BY DEF EncryptWallet, DiesInRewrite
  <2>2. opens = {1}
    BY <1>7
  <2> HIDE DEF opens
  <2>3. Openable(disk')
    BY <2>1
  <2> QED BY <1>5, <2>1, <2>2, <2>3
<1> HIDE DEF m, d
<1>9. /\ DiskOK(e0, nKeys, crashes) /\ MemOK(u0, e0, TRUE, crashes)
      /\ UnlockedMem(u0, e0, TRUE, crashes)
  BY <1>4, UnlockOK
<1> HIDE DEF u0, e0
<1>10. /\ DiskOK(e, nKeys, crashes) /\ MemOK(u, e, TRUE, crashes)
       /\ UnlockedMem(u, e, TRUE, crashes)
  BY <1>1, <1>9, PoolOK
<1> HIDE DEF u, e
<1>11. /\ DiskOK(r, n, crashes) /\ MemOK(f, r, TRUE, crashes)
       /\ UnlockedMem(f, r, TRUE, crashes)
       /\ \A x \in PoolDisks(u, e, PoolSize) : \E i \in nKeys..n : DiskOK(x, i, crashes)
  BY <1>1, <1>10, PoolFilledOK, KeyStoreAssumption
<1>12. \A x \in D : Left(x, n)
  <2>1. Left(d, n) /\ Left(e, n)
    BY <1>1, <1>4, <1>10, LeftOK
  <2>2. \A x \in PoolDisks(u, e, PoolSize) : Left(x, n)
    BY <1>1, <1>11, LeftOK
  <2> QED BY <2>1, <2>2 DEF TxnDisks, d
<1> HIDE DEF r, f, D
<1>13. f.crypto = TRUE
  BY <1>11 DEF UnlockedMem, CryptedMem
<1>14. MemOK(Lock(f, r), r, TRUE, crashes) /\ LockedMem(Lock(f, r), r, TRUE)
  BY <1>11, <1>13, LockOK
<1>15. Lock(f, r).crypto
  BY <1>14 DEF LockedMem, CryptedMem
<1>16. TimerOK(timer)
  BY DEF StoreInv
<1> HIDE DEF n
<1> QED BY <1>1, <1>8, <1>11, <1>12, <1>14, <1>15, <1>16, PerformKeeps

(* What is common to the operations that unlock the wallet.                  *)
LEMMA Unlocking ==
  ASSUME StoreInv, IsLocked(mem), ~stopping, NEW p \in Passphrases,
         NEW mk \in Candidates(mem, p), KeyStoreUnlocks(mem, mk)
  PROVE  LET u == Unlocked(mem, 1)
             d == AllExpanded(mem, disk, 1)
         IN  /\ mk = 1
             /\ DiskOK(d, nKeys, crashes) /\ MemOK(u, d, FALSE, crashes)
             /\ UnlockedMem(u, d, FALSE, crashes)
             /\ \A e \in ExtKeys : u.ext[e].key = TRUE
             /\ Openable(d)
             /\ \A x \in ExpandDisks(mem, disk, 1) :
                  DiskOK(x, nKeys, crashes) /\ Openable(x)
<1>1. /\ stopping = FALSE
      /\ DiskOK(disk, nKeys, crashes) /\ MemOK(mem, disk, FALSE, crashes)
      /\ Openable(disk)
  BY DEF StoreInv
<1>2. LockedMem(mem, disk, FALSE)
  BY <1>1, LockedIs
<1>3. mem.crypto = TRUE
  BY <1>2 DEF LockedMem, CryptedMem
<1>4. mk = 1
  BY <1>1, <1>3, OneMaster
<1>5. CryptedFile(disk)
  BY <1>1, <1>3, ModeOfFile
<1>6. \A x \in ExpandDisks(mem, disk, 1) :
        DiskOK(x, nKeys, crashes) /\ Openable(x)
  BY <1>1, <1>5, ExpandDisksOK
<1>7. LET u == Unlocked(mem, 1)
          d == AllExpanded(mem, disk, 1)
      IN  /\ DiskOK(d, nKeys, crashes) /\ MemOK(u, d, FALSE, crashes)
          /\ UnlockedMem(u, d, FALSE, crashes)
          /\ \A e \in ExtKeys : u.ext[e].key = TRUE
          /\ Openable(d)
  BY <1>1, <1>2, UnlockOK
<1> QED BY <1>4, <1>6, <1>7

(* The dialog's Unlock keeps the invariant and opens the extended keys.      *)
LEMMA UnlockDialogStep ==
  ASSUME StoreInv, NEW p \in Passphrases, UnlockDialog(p)
  PROVE  StoreInv' /\ OpensExtKeys
<1> DEFINE u == Unlocked(mem, 1)
           d == AllExpanded(mem, disk, 1)
           D == ExpandDisks(mem, disk, 1)
<1>1. ~stopping /\ IsLocked(mem)
  BY DEF UnlockDialog
<1>2. PICK mk \in Candidates(mem, p) :
        /\ KeyStoreUnlocks(mem, mk)
        /\ Perform(Unlocked(mem, mk), AllExpanded(mem, disk, mk),
                   ExpandDisks(mem, disk, mk), nKeys, timer, stopping)
  BY DEF UnlockDialog
<1>3. /\ mk = 1
      /\ DiskOK(d, nKeys, crashes) /\ MemOK(u, d, FALSE, crashes)
      /\ UnlockedMem(u, d, FALSE, crashes)
      /\ \A e \in ExtKeys : u.ext[e].key = TRUE
      /\ Openable(d) /\ \A x \in D : DiskOK(x, nKeys, crashes) /\ Openable(x)
  BY <1>1, <1>2, Unlocking
<1>4. Perform(u, d, D, nKeys, timer, stopping)
  BY <1>2, <1>3
<1> HIDE DEF u, d, D
<1>5. /\ nKeys \in Nat /\ nKeys \in 0..MaxKeys /\ nKeys <= nKeys /\ TimerOK(timer)
      /\ stopping = FALSE /\ crashes \in Nat /\ nKeys \in nKeys..nKeys
  BY <1>1 DEF StoreInv
<1>6. \A x \in D : Left(x, nKeys) /\ Openable(x)
  BY <1>3, <1>5, LeftOK
<1>7. u.crypto
  BY <1>3 DEF UnlockedMem, CryptedMem
<1>8. StoreInv' /\ (mem' = u \/ mem'.master = NoMaster)
  BY <1>3, <1>4, <1>5, <1>6, <1>7, PerformOK
<1>9. \A e \in ExtKeys : u.ext[e].key
  BY <1>3
<1> QED BY <1>8, <1>9 DEF OpensExtKeys, IsLocked

(* A field of the timer, replaced.                                           *)
LEMMA TimerFields ==
  ASSUME NEW t, t = [armed |-> t.armed, queued |-> t.queued, until |-> t.until],
         NEW x
  PROVE  /\ [t EXCEPT !.armed = x] =
              [armed |-> x, queued |-> t.queued, until |-> t.until]
         /\ [t EXCEPT !.queued = x] =
              [armed |-> t.armed, queued |-> x, until |-> t.until]
         /\ [t EXCEPT !.until = x] =
              [armed |-> t.armed, queued |-> t.queued, until |-> x]
  OBVIOUS

(* walletpassphrase too, with its new keys and its timer.                    *)
LEMMA walletpassphraseStep ==
  ASSUME StoreInv, NEW p \in Passphrases, walletpassphrase(p)
  PROVE  StoreInv' /\ OpensExtKeys
<1> DEFINE u == Unlocked(mem, 1)
           d == AllExpanded(mem, disk, 1)
           D == ExpandDisks(mem, disk, 1)
           k == IF Cardinality(mem.pool) <= PoolSize
                THEN PoolSize + 1 - Cardinality(mem.pool) ELSE 0
           n == nKeys + k
           t == [RPCRunLater(timer) EXCEPT !.until = TRUE]
           f == PoolAdded(u, k)
           r == PoolFilled(u, d, k)
<1>1. ~stopping /\ IsLocked(mem)
  BY DEF walletpassphrase
<1>2. PICK mk \in Candidates(mem, p) :
        /\ KeyStoreUnlocks(mem, mk)
        /\ nKeys + k <= MaxKeys
        /\ Perform(PoolAdded(Unlocked(mem, mk), k),
                   PoolFilled(Unlocked(mem, mk), AllExpanded(mem, disk, mk), k),
                   ExpandDisks(mem, disk, mk)
                     \cup PoolDisks(Unlocked(mem, mk), AllExpanded(mem, disk, mk), k),
                   nKeys + k, t, stopping)
  BY DEF walletpassphrase
<1>3. /\ mk = 1
      /\ DiskOK(d, nKeys, crashes) /\ MemOK(u, d, FALSE, crashes)
      /\ UnlockedMem(u, d, FALSE, crashes)
      /\ \A e \in ExtKeys : u.ext[e].key = TRUE
      /\ Openable(d) /\ \A x \in D : DiskOK(x, nKeys, crashes) /\ Openable(x)
  BY <1>1, <1>2, Unlocking
<1>4. Perform(f, r, D \cup PoolDisks(u, d, k), n, t, stopping)
  BY <1>2, <1>3
<1> HIDE DEF u, d, D
<1>5. Cardinality(mem.pool) \in Nat
  <2>1. mem.pool \subseteq 1..nKeys /\ nKeys \in Int
    BY DEF StoreInv, MemOK, MemShape, DiskOK, FileShape
  <2>2. IsFiniteSet(1..nKeys)
    BY <2>1, FS_Interval
  <2>3. IsFiniteSet(mem.pool)
    BY <2>1, <2>2, FS_Subset
  <2> QED BY <2>3, FS_CardinalityType
<1>6. k \in Nat
  BY <1>5, KeyStoreAssumption
<1> HIDE DEF k
<1>7. /\ nKeys \in Nat /\ n \in 0..MaxKeys /\ n \in Nat /\ nKeys <= n
      /\ stopping = FALSE /\ crashes \in Nat /\ nKeys \in nKeys..n
  BY <1>1, <1>2, <1>6 DEF StoreInv
<1>8. /\ DiskOK(r, n, crashes) /\ MemOK(f, r, FALSE, crashes)
      /\ UnlockedMem(f, r, FALSE, crashes) /\ f.ext = u.ext
      /\ Openable(r)
      /\ \A x \in PoolDisks(u, d, k) : Left(x, n) /\ Openable(x)
  <2>1. /\ DiskOK(r, n, crashes) /\ MemOK(f, r, FALSE, crashes)
        /\ UnlockedMem(f, r, FALSE, crashes) /\ Openable(r)
    BY <1>3, <1>6, <1>7, PoolFilledOK
  <2>3. f.ext = u.ext
    <3>1. IsMem(u)
      BY <1>3 DEF MemOK, MemShape
    <3> QED BY <3>1, PoolAddedExt
  <2>2. \A x \in PoolDisks(u, d, k) :
          \E i \in nKeys..n : DiskOK(x, i, crashes) /\ Openable(x)
    BY <1>3, <1>6, <1>7, PoolFilledOK
  <2>4. \A x \in PoolDisks(u, d, k) : Left(x, n) /\ Openable(x)
    BY <1>7, <2>2, LeftOK
  <2> QED BY <2>1, <2>3, <2>4
<1> HIDE DEF n, f, r
<1>9. \A x \in D : Left(x, n) /\ Openable(x)
  BY <1>3, <1>7, LeftOK
<1>10. TimerOK(t)
  <2> DEFINE t1 == RPCRunLater(timer)
  <2>1. /\ timer = [armed |-> timer.armed, queued |-> timer.queued,
                    until |-> timer.until]
        /\ timer.queued \in 0..MaxQueued
    BY DEF StoreInv, TimerOK
  <2>2. t1 = [armed |-> TRUE, queued |-> timer.queued, until |-> timer.until]
    BY <2>1, TimerFields, Zenon DEF RPCRunLater
  <2> HIDE DEF t1
  <2>3. t = [t1 EXCEPT !.until = TRUE]
    BY DEF t1
  <2>5. /\ t1 = [armed |-> t1.armed, queued |-> t1.queued, until |-> t1.until]
        /\ t1.armed = TRUE /\ t1.queued = timer.queued
    BY <2>2
  <2>4. t = [armed |-> TRUE, queued |-> timer.queued, until |-> TRUE]
    BY <2>3, <2>5, TimerFields, Zenon
  <2> HIDE DEF t
  <2>6. t.armed = TRUE /\ t.queued = timer.queued /\ t.until = TRUE
    BY <2>4
  <2> QED BY <2>1, <2>4, <2>6 DEF TimerOK
<1> HIDE DEF t
<1>11. f.crypto
  BY <1>8 DEF UnlockedMem, CryptedMem
<1>12. \A x \in D \cup PoolDisks(u, d, k) : Left(x, n) /\ Openable(x)
  BY <1>8, <1>9
<1>13. StoreInv' /\ (mem' = f \/ mem'.master = NoMaster)
  BY <1>4, <1>7, <1>8, <1>10, <1>11, <1>12, PerformOK
<1>14. \A e \in ExtKeys : f.ext[e].key
  BY <1>3, <1>8
<1> QED BY <1>13, <1>14 DEF OpensExtKeys, IsLocked

(* A step that locks an encrypted wallet and leaves the file.                *)
LEMMA LockingStep ==
  ASSUME StoreInv, mem.crypto, mem' = Lock(mem, disk), TimerOK(timer'),
         UNCHANGED <<disk, nKeys, stopping, crashes>>
  PROVE  StoreInv' /\ OpensExtKeys
<1>1. /\ DiskOK(disk, nKeys, crashes) /\ MemOK(mem, disk, stopping, crashes)
  BY DEF StoreInv
<1>2. mem.crypto = TRUE
  BY <1>1, LockedIs
<1>3. MemOK(mem', disk, stopping, crashes) /\ LockedMem(mem', disk, stopping)
  BY <1>1, <1>2, LockOK
<1>4. IsLocked(mem') /\ mem'.crypto
  BY <1>3, LockedIs DEF LockedMem, CryptedMem
<1> QED BY <1>3, <1>4 DEF StoreInv, OpensExtKeys

(* walletlock, the timer and its handler.                                    *)
LEMMA TimerSteps ==
  ASSUME StoreInv, walletlock \/ Expire \/ LockWallet
  PROVE  StoreInv' /\ OpensExtKeys
<1>0. /\ timer = [armed |-> timer.armed, queued |-> timer.queued, until |-> timer.until]
      /\ timer.armed \in BOOLEAN /\ timer.queued \in 0..MaxQueued
      /\ timer.until \in BOOLEAN
  BY DEF StoreInv, TimerOK
<1>1. CASE walletlock
  <2>1. timer' = [armed |-> timer.armed, queued |-> timer.queued, until |-> FALSE]
    BY <1>0, <1>1 DEF walletlock
  <2>2. TimerOK(timer')
    BY <1>0, <2>1 DEF TimerOK
  <2> QED BY <1>1, <2>2, LockingStep DEF walletlock
<1>2. CASE Expire
  <2> DEFINE t == [timer EXCEPT !.armed = FALSE]
  <2>1. t = [armed |-> FALSE, queued |-> timer.queued, until |-> timer.until]
    BY <1>0, TimerFields, Zenon
  <2>2. timer' = [t EXCEPT !.queued = timer.queued + 1]
    BY <1>2, Zenon DEF Expire
  <2> HIDE DEF t
  <2>3. timer' = [armed |-> FALSE, queued |-> timer.queued + 1, until |-> timer.until]
    BY <2>1, <2>2, Zenon
  <2>4. timer.armed /\ timer.queued < MaxQueued
    BY <1>2 DEF Expire
  <2>5. timer'.armed = FALSE /\ timer'.queued = timer.queued + 1 /\ timer'.until = timer.until
    BY <2>3
  <2>6. timer.queued + 1 \in 0..MaxQueued
    BY <1>0, <2>4, KeyStoreAssumption
  <2>7. TimerOK(timer')
    BY <1>0, <2>3, <2>5, <2>6 DEF TimerOK
  <2>8. UNCHANGED <<mem, disk, nKeys, stopping, crashes>>
    BY <1>2 DEF Expire
  <2> QED BY <2>4, <2>7, <2>8 DEF StoreInv, OpensExtKeys
<1>3. CASE LockWallet
  <2> DEFINE t == [timer EXCEPT !.queued = timer.queued - 1]
  <2>1. t = [armed |-> timer.armed, queued |-> timer.queued - 1, until |-> timer.until]
    BY <1>0
  <2>2. timer' = [t EXCEPT !.until = FALSE]
    BY <1>3, Zenon DEF LockWallet
  <2> HIDE DEF t
  <2>3. timer' = [armed |-> timer.armed, queued |-> timer.queued - 1, until |-> FALSE]
    BY <2>1, <2>2, Zenon
  <2>4. timer.queued > 0
    BY <1>3 DEF LockWallet
  <2>5. timer'.armed = timer.armed /\ timer'.queued = timer.queued - 1 /\ timer'.until = FALSE
    BY <2>3
  <2>6. timer.queued - 1 \in 0..MaxQueued
    BY <1>0, <2>4, KeyStoreAssumption
  <2>7. TimerOK(timer')
    BY <1>0, <2>3, <2>5, <2>6 DEF TimerOK
  <2>8. mem.crypto
    BY <2>4 DEF StoreInv
  <2> QED BY <1>3, <2>7, <2>8, LockingStep DEF LockWallet
<1> QED BY <1>1, <1>2, <1>3

(* The dialog's Lock, its first half: what was open is closed, the master    *)
(* key is still there.                                                       *)
LEMMA LockDialogStep ==
  ASSUME StoreInv, LockDialog
  PROVE  StoreInv' /\ OpensExtKeys
<1> DEFINE t == TRUE
           f == FALSE
           x == ExtKeyLock(mem)
           u == Locking(mem, disk.sx, x, t, f)
<1>0. mem' = u /\ UNCHANGED <<disk, nKeys, timer, stopping, crashes>>
  BY DEF LockDialog, Locking
<1>1. /\ stopping = FALSE /\ ~IsLocked(mem) /\ mem.crypto
      /\ DiskOK(disk, nKeys, crashes) /\ MemOK(mem, disk, FALSE, crashes)
  BY DEF StoreInv, LockDialog
<1>2. UnlockedMem(mem, disk, FALSE, crashes)
  BY <1>1, LockedIs
<1>3. /\ mem.crypto = TRUE /\ mem.master = 1 /\ disk.mkeys # <<>>
      /\ \A e \in ExtKeys : mem.ext[e].cipher = 1
  BY <1>2 DEF UnlockedMem, CryptedMem
<1>4. /\ IsMem(mem) /\ MemShape(mem, disk) /\ CryptedFile(disk)
      /\ \A e \in ExtKeys : IsExt(mem.ext[e])
  BY <1>1, <1>3, ModeOfFile DEF MemOK, MemShape
<1>5. \A e \in ExtKeys : IsExt(x[e]) /\ x[e].cipher = 1 /\ x[e].key = FALSE
  <2>1. \A e \in ExtKeys : /\ IsExt(x[e])
                           /\ x[e].cipher = mem.ext[e].cipher
                           /\ mem.ext[e].cipher # Plain => x[e].key = FALSE
    BY <1>4, ExtLocked, Zenon
  <2> HIDE DEF x
  <2> QED BY <1>3, <2>1 DEF Plain
<1>14. IsMem(mem)
  BY <1>4
<1> HIDE DEF x, t, f
<1>6. u = [crypto |-> mem.crypto, master |-> mem.master, locking |-> t,
           raced |-> f, keys |-> mem.keys, ckeys |-> mem.ckeys, sx |-> disk.sx,
           meta |-> mem.meta, mkeys |-> mem.mkeys, pool |-> mem.pool, ext |-> x]
  BY <1>14, LockingFields
<1> HIDE DEF u
<1>7. /\ u.crypto = TRUE /\ u.master = 1 /\ u.locking = TRUE /\ u.raced = FALSE
      /\ u.ext = x
  BY <1>3, <1>6 DEF t, f
<1>8. /\ u.keys = mem.keys /\ u.ckeys = mem.ckeys /\ u.sx = disk.sx
      /\ u.meta = mem.meta /\ u.mkeys = mem.mkeys /\ u.pool = mem.pool /\ IsMem(u)
  BY <1>6 DEF IsMem
<1>9. MemShape(u, disk)
  BY <1>4, <1>5, <1>7, <1>8 DEF MemShape
<1>10. \A a \in DOMAIN u.sx : u.sx[a] = 1
  BY <1>4, <1>8 DEF CryptedFile
<1>11. UnlockedMem(u, disk, FALSE, crashes)
  BY <1>3, <1>5, <1>7, <1>10 DEF UnlockedMem, CryptedMem, Closed
<1>12. MemOK(mem', disk', stopping', crashes') /\ mem'.crypto
  BY <1>0, <1>1, <1>7, <1>9, <1>11 DEF MemOK
<1>13. StoreInv'
  BY <1>0, <1>12 DEF StoreInv
<1> QED BY <1>1, <1>13 DEF OpensExtKeys

(* Its second half, whatever has come in between.                            *)
LEMMA LockKeyStoreStep ==
  ASSUME StoreInv, LockKeyStore
  PROVE  StoreInv' /\ OpensExtKeys
<1> DEFINE f == FALSE
           u == [mem EXCEPT !.master = NoMaster, !.locking = f]
<1>0. mem' = u /\ UNCHANGED <<disk, nKeys, timer, stopping, crashes>> /\ mem.locking
  BY DEF LockKeyStore
<1>1. DiskOK(disk, nKeys, crashes) /\ MemOK(mem, disk, stopping, crashes)
  BY DEF StoreInv
<1>2. IsMem(mem) /\ MemShape(mem, disk)
  BY <1>1 DEF MemOK, MemShape
<1> HIDE DEF f
<1>3. u = [crypto |-> mem.crypto, master |-> NoMaster, locking |-> f,
           raced |-> mem.raced, keys |-> mem.keys, ckeys |-> mem.ckeys,
           sx |-> mem.sx, meta |-> mem.meta, mkeys |-> mem.mkeys,
           pool |-> mem.pool, ext |-> mem.ext]
  <2> DEFINE u1 == [mem EXCEPT !.master = NoMaster]
  <2>1. u1 = [crypto |-> mem.crypto, master |-> NoMaster, locking |-> mem.locking,
              raced |-> mem.raced, keys |-> mem.keys, ckeys |-> mem.ckeys,
              sx |-> mem.sx, meta |-> mem.meta, mkeys |-> mem.mkeys,
              pool |-> mem.pool, ext |-> mem.ext]
    BY <1>2 DEF IsMem
  <2>2. u = [u1 EXCEPT !.locking = f]
    OBVIOUS
  <2> HIDE DEF u1, u
  <2> QED BY <2>1, <2>2
<1> HIDE DEF u
<1>4. /\ u.crypto = mem.crypto /\ u.master = NoMaster /\ u.locking = FALSE
      /\ u.raced = mem.raced /\ u.sx = mem.sx /\ u.ext = mem.ext
  BY <1>3 DEF f
<1>5. /\ u.keys = mem.keys /\ u.ckeys = mem.ckeys /\ u.meta = mem.meta
      /\ u.mkeys = mem.mkeys /\ u.pool = mem.pool /\ IsMem(u)
  BY <1>3 DEF IsMem
<1>6. MemShape(u, disk)
  BY <1>2, <1>4, <1>5 DEF MemShape
<1>7. PlainMem(mem, disk) => PlainMem(u, disk)
  BY <1>4 DEF PlainMem
<1>8. LockedMem(mem, disk, stopping) => LockedMem(u, disk, stopping)
  BY <1>4 DEF LockedMem, CryptedMem, Closed
<1>9. UnlockedMem(mem, disk, stopping, crashes) => LockedMem(u, disk, stopping)
  BY <1>0, <1>4 DEF UnlockedMem, LockedMem, CryptedMem, Closed
<1>10. MemOK(mem', disk', stopping', crashes') /\ mem'.crypto = mem.crypto
  BY <1>0, <1>1, <1>4, <1>6, <1>7, <1>8, <1>9 DEF MemOK
<1>11. StoreInv'
  BY <1>0, <1>10 DEF StoreInv
<1>12. mem'.master = NoMaster
  BY <1>0, <1>4
<1> QED BY <1>11, <1>12 DEF OpensExtKeys, IsLocked

(* The master key under a new passphrase, in memory and in wallet.dat.       *)
Renewed(w, p) == [w EXCEPT !.mkeys = <<p>>]

(* Memory and file agree under the new passphrase.                           *)
LEMMA NewPassphraseOK ==
  ASSUME NEW m, NEW d, NEW n, NEW s, NEW c, NEW p \in Passphrases,
         DiskOK(d, n, c), MemOK(m, d, s, c), UnlockedMem(m, d, s, c)
  PROVE  LET u == Renewed(m, p)
             x == Renewed(d, p)
         IN  /\ DiskOK(x, n, c) /\ MemOK(u, x, s, c)
             /\ UnlockedMem(u, x, s, c)
             /\ Openable(d) => Openable(x)
<1> DEFINE u == Renewed(m, p)
           x == Renewed(d, p)
<1>0. m.crypto = TRUE
  BY DEF UnlockedMem, CryptedMem
<1>1. CryptedFile(d) /\ IsMem(m) /\ IsDisk(d)
  BY <1>0, ModeOfFile DEF MemOK, MemShape, DiskOK, FileShape
<1>2. /\ x.keys = d.keys /\ x.ckeys = d.ckeys /\ x.sx = d.sx /\ x.meta = d.meta
      /\ x.mkeys = <<p>> /\ x.pool = d.pool /\ x.ext = d.ext /\ IsDisk(x)
  BY <1>1 DEF IsDisk, Renewed
<1>3. /\ u.crypto = m.crypto /\ u.master = m.master /\ u.keys = m.keys
      /\ u.ckeys = m.ckeys /\ u.sx = m.sx /\ u.meta = m.meta
      /\ u.mkeys = <<p>> /\ u.pool = m.pool /\ u.ext = m.ext /\ IsMem(u)
      /\ u.locking = m.locking /\ u.raced = m.raced
  BY <1>1 DEF IsMem, Renewed
<1> HIDE DEF u, x
<1>4. CryptedFile(x)
  BY <1>1, <1>2 DEF CryptedFile
<1>5. FileShape(x, n)
  BY <1>2 DEF DiskOK, FileShape
<1>6. DiskOK(x, n, c)
  BY <1>2, <1>4, <1>5 DEF DiskOK, KeysOf
<1>7. MemShape(u, x)
  BY <1>2, <1>3 DEF MemOK, MemShape
<1>8. UnlockedMem(u, x, s, c)
  <2>1. u.crypto = TRUE
    BY <1>0, <1>3
  <2>2. x.mkeys # <<>>
    BY <1>2
  <2>3. CryptedMem(u, x, s)
    BY <1>3, <2>1, <2>2 DEF UnlockedMem, CryptedMem
  <2>4. Closed(m, s) => Closed(u, s)
    BY <1>3 DEF Closed
  <2>5. Usable(m, c) => Usable(u, c)
    BY <1>3 DEF Usable
  <2> QED BY <1>3, <2>3, <2>4, <2>5 DEF UnlockedMem
<1>9. \A k \in DOMAIN x.ckeys : x.ckeys[k] = d.ckeys[k]
  BY <1>2
<1>10. Openable(d) => Openable(x)
  BY <1>1, <1>2, <1>9 DEF Openable, CryptedFile
<1> QED BY <1>6, <1>7, <1>8, <1>10 DEF MemOK, u, x

(* ChangeWalletPassphrase keeps the invariant.                               *)
LEMMA ChangePassphraseStep ==
  ASSUME StoreInv, NEW old \in Passphrases, NEW new \in Passphrases,
         NEW rpc \in BOOLEAN, ChangeWalletPassphrase(old, new, rpc)
  PROVE  StoreInv' /\ OpensExtKeys
<1> DEFINE l == Lock(mem, disk)
           v == UnlockStealthAddresses(l, 1)
           e == AllExpanded(l, disk, 1)
           u == Renewed(v, new)
           d == Renewed(e, new)
           D == ExpandDisks(l, disk, 1)
           m == IF rpc /\ ~IsLocked(mem) THEN u ELSE Lock(u, d)
<1>1. /\ stopping = FALSE /\ mem.crypto
      /\ DiskOK(disk, nKeys, crashes) /\ MemOK(mem, disk, FALSE, crashes)
      /\ TimerOK(timer) /\ nKeys \in Nat /\ nKeys \in 0..MaxKeys /\ nKeys <= nKeys
      /\ crashes \in Nat /\ Openable(disk) /\ nKeys \in nKeys..nKeys
  <2>1. ~stopping /\ mem.crypto
    BY DEF ChangeWalletPassphrase
  <2>2. stopping = FALSE
    BY <2>1 DEF StoreInv
  <2>3. /\ DiskOK(disk, nKeys, crashes) /\ MemOK(mem, disk, FALSE, crashes)
        /\ TimerOK(timer) /\ Openable(disk)
    BY <2>2 DEF StoreInv
  <2>4. /\ nKeys \in Nat /\ nKeys \in 0..MaxKeys /\ nKeys <= nKeys /\ crashes \in Nat
        /\ nKeys \in nKeys..nKeys
    BY DEF StoreInv
  <2> QED BY <2>1, <2>2, <2>3, <2>4
<1>2. mem.crypto = TRUE
  BY <1>1, LockedIs
<1>3. MemOK(l, disk, FALSE, crashes) /\ LockedMem(l, disk, FALSE)
  BY <1>1, <1>2, LockOK
<1>4. l.crypto = TRUE
  BY <1>3 DEF LockedMem, CryptedMem
<1>5. CryptedFile(disk)
  BY <1>1, <1>2, ModeOfFile
<1>6. /\ DiskOK(e, nKeys, crashes) /\ e.mkeys = disk.mkeys
      /\ MemOK(v, e, FALSE, crashes) /\ UnlockedMem(v, e, FALSE, crashes)
      /\ Openable(e)
  BY <1>1, <1>3, UnlockOK
<1>7. \A x \in D : DiskOK(x, nKeys, crashes) /\ Openable(x)
  BY <1>1, <1>5, ExpandDisksOK
<1>8. [v.mkeys EXCEPT ![1] = new] = <<new>>
  <2>1. PICK p \in Passphrases : disk.mkeys = <<p>>
    BY <1>5 DEF CryptedFile
  <2>2. v.mkeys = <<p>>
    BY <1>6, <2>1 DEF MemOK, MemShape
  <2> QED BY <2>2
<1>9. CASE mem' = l /\ UNCHANGED <<disk, nKeys, timer, stopping, crashes>>
  BY <1>1, <1>9, LockingStep
<1>10. /\ DiskOK(d, nKeys, crashes) /\ MemOK(u, d, FALSE, crashes)
       /\ UnlockedMem(u, d, FALSE, crashes) /\ u.mkeys = <<new>>
       /\ Openable(d)
  <2>1. IsMem(v)
    BY <1>6 DEF MemOK, MemShape
  <2> HIDE DEF v, e
  <2>2. u.mkeys = <<new>>
    BY <2>1 DEF Renewed, IsMem
  <2>3. /\ DiskOK(d, nKeys, crashes) /\ MemOK(u, d, FALSE, crashes)
        /\ UnlockedMem(u, d, FALSE, crashes) /\ Openable(d)
    BY <1>6, NewPassphraseOK
  <2> QED BY <2>2, <2>3
<1>11. CASE Perform(m, d, D, nKeys, timer, stopping)
  <2> HIDE DEF u, d, D
  <2>1. u.crypto = TRUE
    BY <1>10 DEF UnlockedMem, CryptedMem
  <2>2. MemOK(Lock(u, d), d, FALSE, crashes) /\ LockedMem(Lock(u, d), d, FALSE)
    BY <1>10, <2>1, LockOK
  <2>3. Lock(u, d).crypto /\ IsLocked(Lock(u, d))
    BY <2>2, LockedIs DEF LockedMem, CryptedMem
  <2>4. MemOK(m, d, FALSE, crashes) /\ m.crypto
    BY <1>10, <2>1, <2>2, <2>3
  <2>5. IsLocked(mem) => IsLocked(m)
    BY <2>3
  <2> HIDE DEF m
  <2>6. \A x \in D : Left(x, nKeys) /\ Openable(x)
    BY <1>1, <1>7, LeftOK
  <2>7. StoreInv' /\ (mem' = m \/ mem'.master = NoMaster)
    BY <1>1, <1>10, <1>11, <2>4, <2>6, PerformOK
  <2> QED BY <2>5, <2>7 DEF OpensExtKeys, IsLocked
<1>12. PICK mk \in Candidates(l, old) :
         IF KeyStoreUnlocks(l, mk)
         THEN LET w == [UnlockStealthAddresses(l, mk)
                          EXCEPT !.mkeys = [@ EXCEPT ![1] = new]]
                  x == [AllExpanded(l, disk, mk) EXCEPT !.mkeys = w.mkeys]
              IN  Perform(IF rpc /\ ~IsLocked(mem) THEN w ELSE Lock(w, x), x,
                          ExpandDisks(l, disk, mk), nKeys, timer, stopping)
         ELSE mem' = l /\ UNCHANGED <<disk, nKeys, timer, stopping, crashes>>
  BY DEF ChangeWalletPassphrase
<1>13. CASE ~KeyStoreUnlocks(l, mk)
  BY <1>9, <1>12, <1>13
<1>14. CASE KeyStoreUnlocks(l, mk)
  <2>1. mk = 1
    BY <1>1, <1>3, <1>4, <1>14, OneMaster
  <2> DEFINE w == [v EXCEPT !.mkeys = [v.mkeys EXCEPT ![1] = new]]
             x == [e EXCEPT !.mkeys = w.mkeys]
  <2>2. Perform(IF rpc /\ ~IsLocked(mem) THEN w ELSE Lock(w, x), x, D,
                nKeys, timer, stopping)
    BY <1>12, <1>14, <2>1
  <2>3. w = u
    BY <1>8 DEF Renewed
  <2>4. x = d
    BY <1>10, <2>3 DEF Renewed
  <2> HIDE DEF w, x, u, d, D
  <2>5. Perform(IF rpc /\ ~IsLocked(mem) THEN u ELSE Lock(u, d), d, D,
                nKeys, timer, stopping)
    BY <2>2, <2>3, <2>4
  <2> QED BY <1>11, <2>5
<1> QED BY <1>13, <1>14

(* A new key, imported or received by an unlocked wallet.                    *)
LEMMA NewKeyStep ==
  ASSUME StoreInv, ~IsLocked(mem), nKeys < MaxKeys,
         Perform(AddKeys(mem, Fresh(1)), WriteKeys(mem, disk, Fresh(1)), {},
                 nKeys + 1, timer, stopping)
  PROVE  StoreInv' /\ OpensExtKeys
<1> DEFINE n == nKeys + 1
           u == AddKeys(mem, Fresh(1))
           d == WriteKeys(mem, disk, Fresh(1))
<1>1. /\ n \in 0..MaxKeys /\ nKeys <= n /\ 1..n = 1..nKeys \cup Fresh(1)
  <2>1. nKeys \in Nat /\ n \in 0..MaxKeys /\ nKeys <= n
    BY KeyStoreAssumption DEF StoreInv
  <2>2. 1..n = 1..nKeys \cup Fresh(1)
    BY <2>1 DEF Fresh
  <2> QED BY <2>1, <2>2
<1>2. /\ DiskOK(disk, nKeys, crashes) /\ MemOK(mem, disk, stopping, crashes)
      /\ TimerOK(timer) /\ stopping \in BOOLEAN /\ Openable(disk)
  BY DEF StoreInv
<1>3. ~LockedMem(mem, disk, stopping)
  BY <1>2, LockedIs
<1> HIDE DEF n
<1>4. DiskOK(d, n, crashes) /\ MemOK(u, d, stopping, crashes) /\ Openable(d)
  BY <1>1, <1>2, <1>3, KeysOK
<1>5. mem.crypto => u.crypto
  <2>1. ASSUME mem.crypto PROVE u.crypto
    <3>1. UnlockedMem(mem, disk, stopping, crashes)
      BY <1>2, <2>1, LockedIs
    <3>2. UnlockedMem(u, d, stopping, crashes)
      BY <1>1, <1>2, <1>3, <3>1, KeysOK
    <3> QED BY <3>2 DEF UnlockedMem, CryptedMem
  <2> QED BY <2>1
<1>6. timer.armed \/ timer.queued > 0 => u.crypto
  BY <1>5 DEF StoreInv
<1>7. Perform(u, d, {}, n, timer, stopping)
  BY DEF n
<1> HIDE DEF u, d
<1>8. StoreInv'
  BY <1>1, <1>2, <1>4, <1>6, <1>7, PerformOK
<1> QED BY <1>8 DEF OpensExtKeys

(* A stealth address of the wallet: plain in memory, encrypted in the file.  *)
LEMMA StealthOK ==
  ASSUME NEW n, NEW s, NEW c, NEW a \in StealthAddrs,
         DiskOK(disk, n, c), MemOK(mem, disk, s, c), ~IsLocked(mem),
         a \notin DOMAIN mem.sx
  PROVE  LET g == mem.raced \/ mem.locking
             u == [mem EXCEPT !.sx = With(mem.sx, {a}, Plain), !.raced = g]
             v == IF mem.crypto THEN mem.master ELSE Plain
             d == [disk EXCEPT !.sx = With(disk.sx, {a}, v)]
         IN  /\ DiskOK(d, n, c) /\ MemOK(u, d, s, c) /\ u.crypto = mem.crypto
             /\ Openable(disk) => Openable(d)
<1> DEFINE g == mem.raced \/ mem.locking
           u == [mem EXCEPT !.sx = With(mem.sx, {a}, Plain), !.raced = g]
           v == IF mem.crypto THEN mem.master ELSE Plain
           d == [disk EXCEPT !.sx = With(disk.sx, {a}, v)]
<1>1. /\ IsMem(mem) /\ IsDisk(disk) /\ MemShape(mem, disk) /\ FileShape(disk, n)
      /\ ~LockedMem(mem, disk, s)
  BY LockedIs DEF MemOK, MemShape, DiskOK, FileShape
<1>2. /\ mem.crypto = FALSE => v = Plain
      /\ mem.crypto = TRUE => v = mem.master
  OBVIOUS
<1>12. g \in BOOLEAN /\ (mem.locking = TRUE => g = TRUE)
  BY <1>1 DEF MemShape
<1> HIDE DEF v, g
<1>3. /\ d.keys = disk.keys /\ d.ckeys = disk.ckeys /\ d.sx = With(disk.sx, {a}, v)
      /\ d.meta = disk.meta /\ d.mkeys = disk.mkeys /\ d.pool = disk.pool
      /\ d.ext = disk.ext /\ IsDisk(d)
  BY <1>1 DEF IsDisk
<1>4. /\ u.crypto = mem.crypto /\ u.master = mem.master /\ u.keys = mem.keys
      /\ u.ckeys = mem.ckeys /\ u.sx = With(mem.sx, {a}, Plain)
      /\ u.meta = mem.meta /\ u.mkeys = mem.mkeys /\ u.pool = mem.pool
      /\ u.ext = mem.ext /\ IsMem(u) /\ u.locking = mem.locking /\ u.raced = g
  <2> DEFINE u1 == [mem EXCEPT !.sx = With(mem.sx, {a}, Plain)]
  <2>1. u1 = [crypto |-> mem.crypto, master |-> mem.master, locking |-> mem.locking,
              raced |-> mem.raced, keys |-> mem.keys, ckeys |-> mem.ckeys,
              sx |-> With(mem.sx, {a}, Plain), meta |-> mem.meta,
              mkeys |-> mem.mkeys, pool |-> mem.pool, ext |-> mem.ext]
    BY <1>1 DEF IsMem
  <2>2. u = [u1 EXCEPT !.raced = g]
    OBVIOUS
  <2> HIDE DEF u1, u
  <2>3. u = [crypto |-> mem.crypto, master |-> mem.master, locking |-> mem.locking,
             raced |-> g, keys |-> mem.keys, ckeys |-> mem.ckeys,
             sx |-> With(mem.sx, {a}, Plain), meta |-> mem.meta,
             mkeys |-> mem.mkeys, pool |-> mem.pool, ext |-> mem.ext]
    BY <2>1, <2>2
  <2> QED BY <2>3 DEF IsMem
<1> HIDE DEF u, d
<1>5. /\ DOMAIN u.sx = {a} \cup DOMAIN mem.sx
      /\ \A x \in DOMAIN u.sx : u.sx[x] = IF x = a THEN Plain ELSE mem.sx[x]
  BY <1>4 DEF With
<1>6. /\ DOMAIN d.sx = {a} \cup DOMAIN disk.sx
      /\ \A x \in DOMAIN d.sx : d.sx[x] = IF x = a THEN v ELSE disk.sx[x]
  BY <1>3 DEF With
<1>7. FileShape(d, n)
  BY <1>1, <1>3, <1>6 DEF FileShape
<1>8. MemShape(u, d)
  BY <1>1, <1>3, <1>4, <1>5, <1>6, <1>12 DEF MemShape
<1>9. /\ 1..n = KeysOf(d)
      /\ c = 0 => \A k \in DOMAIN d.ckeys : d.ckeys[k] = Empty => k \in DOMAIN d.meta
  BY <1>3 DEF DiskOK, KeysOf
<1>13. Openable(disk) => Openable(d)
  BY <1>3 DEF Openable
<1>10. CASE PlainMem(mem, disk)
  <2>1. PlainFile(disk) /\ mem.crypto = FALSE
    BY <1>10, ModeOfFile DEF PlainMem
  <2>2. PlainFile(d)
    BY <1>2, <1>3, <1>6, <2>1 DEF PlainFile
  <2>3. PlainMem(u, d)
    BY <1>3, <1>4, <1>5, <1>10 DEF PlainMem
  <2> QED BY <1>4, <1>7, <1>8, <1>9, <1>13, <2>2, <2>3 DEF DiskOK, MemOK, u, d, v, g
<1>11. CASE UnlockedMem(mem, disk, s, c)
  <2>1. CryptedFile(disk) /\ mem.crypto = TRUE /\ mem.master = 1
    BY <1>11, ModeOfFile DEF UnlockedMem, CryptedMem
  <2>2. v = 1
    BY <1>2, <2>1
  <2>3. CryptedFile(d)
    <3>1. \A x \in DOMAIN d.sx : d.sx[x] = 1
      BY <1>6, <2>1, <2>2 DEF CryptedFile
    <3> QED BY <1>3, <2>1, <3>1 DEF CryptedFile
  <2>4. UnlockedMem(u, d, s, c)
    <3>1. CryptedMem(u, d, s)
      BY <1>3, <1>4, <1>5, <1>11 DEF UnlockedMem, CryptedMem
    <3>2. CASE mem.locking
      <4>1. u.raced = TRUE
        BY <1>1, <1>4, <1>12, <3>2 DEF MemShape
      <4> QED BY <1>4, <2>1, <3>1, <3>2, <4>1 DEF UnlockedMem, Closed
    <3>3. CASE ~mem.locking
      <4>1. Usable(mem, c)
        BY <1>11, <3>3 DEF UnlockedMem
      <4>2. \A x \in DOMAIN u.sx : u.sx[x] = Plain
        BY <1>5, <4>1 DEF Usable
      <4>3. Usable(u, c)
        BY <1>4, <4>1, <4>2 DEF Usable
      <4> QED BY <1>4, <2>1, <3>1, <3>3, <4>3 DEF UnlockedMem
    <3> QED BY <3>2, <3>3
  <2> QED BY <1>4, <1>7, <1>8, <1>9, <1>13, <2>3, <2>4 DEF DiskOK, MemOK, u, d, v, g
<1> QED BY <1>1, <1>10, <1>11 DEF MemOK

(* AddStealthAddress keeps the invariant.                                    *)
LEMMA AddStealthStep ==
  ASSUME StoreInv, NEW a \in StealthAddrs, AddStealthAddress(a)
  PROVE  StoreInv' /\ OpensExtKeys
<1> DEFINE g == mem.raced \/ mem.locking
           u == [mem EXCEPT !.sx = With(mem.sx, {a}, Plain), !.raced = g]
           v == IF mem.crypto THEN mem.master ELSE Plain
           d == [disk EXCEPT !.sx = With(disk.sx, {a}, v)]
<1>1. ~IsLocked(mem) /\ a \notin DOMAIN mem.sx
  BY DEF AddStealthAddress
<1>2. Perform(u, d, {}, nKeys, timer, stopping)
  BY DEF AddStealthAddress
<1>3. /\ DiskOK(disk, nKeys, crashes) /\ MemOK(mem, disk, stopping, crashes)
      /\ TimerOK(timer) /\ stopping \in BOOLEAN /\ Openable(disk)
  BY DEF StoreInv
<1>4. /\ DiskOK(d, nKeys, crashes) /\ MemOK(u, d, stopping, crashes)
      /\ u.crypto = mem.crypto /\ Openable(d)
  BY <1>1, <1>3, StealthOK
<1> HIDE DEF u, d
<1>5. timer.armed \/ timer.queued > 0 => u.crypto
  BY <1>4 DEF StoreInv
<1>6. nKeys \in 0..MaxKeys /\ nKeys <= nKeys
  BY DEF StoreInv
<1>7. StoreInv'
  BY <1>2, <1>3, <1>4, <1>5, <1>6, PerformOK
<1> QED BY <1>1, <1>7 DEF OpensExtKeys

(* A payment to a locked wallet: a key without secret, with its metadata, or *)
(* after a crash without.                                                    *)
LEMMA ReceivedOK ==
  ASSUME NEW s, NEW c, NEW a, nKeys \in Nat,
         DiskOK(disk, nKeys, c), MemOK(mem, disk, s, c), LockedMem(mem, disk, s),
         a \in DOMAIN mem.sx
  PROVE  LET k == nKeys + 1
             u == [mem EXCEPT !.ckeys = With(mem.ckeys, {k}, Empty),
                              !.meta = With(mem.meta, {k}, a)]
             d == [disk EXCEPT !.ckeys = With(disk.ckeys, {k}, Empty)]
             e == [d EXCEPT !.meta = With(d.meta, {k}, a)]
         IN  /\ DiskOK(e, k, c) /\ MemOK(u, e, s, c) /\ u.crypto = TRUE
             /\ LockedMem(u, e, s)
             /\ \A c2 : c2 # 0 => DiskOK(d, k, c2)
             /\ Openable(disk) => Openable(d) /\ Openable(e)
<1> DEFINE k == nKeys + 1
           u == [mem EXCEPT !.ckeys = With(mem.ckeys, {k}, Empty),
                            !.meta = With(mem.meta, {k}, a)]
           d == [disk EXCEPT !.ckeys = With(disk.ckeys, {k}, Empty)]
           e == [d EXCEPT !.meta = With(d.meta, {k}, a)]
<1>1. /\ IsMem(mem) /\ IsDisk(disk) /\ MemShape(mem, disk) /\ FileShape(disk, nKeys)
      /\ mem.crypto = TRUE
  BY DEF MemOK, MemShape, DiskOK, FileShape, LockedMem, CryptedMem
<1>2. CryptedFile(disk)
  BY <1>1, ModeOfFile
<1>3. /\ 1..k = 1..nKeys \cup {k} /\ k \notin 1..nKeys
  OBVIOUS
<1> HIDE DEF k
<1>4. u = [crypto |-> mem.crypto, master |-> mem.master, locking |-> mem.locking,
           raced |-> mem.raced, keys |-> mem.keys, ckeys |-> With(mem.ckeys, {k}, Empty), sx |-> mem.sx,
           meta |-> With(mem.meta, {k}, a), mkeys |-> mem.mkeys,
           pool |-> mem.pool, ext |-> mem.ext]
  BY <1>1, ReceivedFields
<1>5. /\ d.keys = disk.keys /\ d.ckeys = With(disk.ckeys, {k}, Empty) /\ d.sx = disk.sx
      /\ d.meta = disk.meta /\ d.mkeys = disk.mkeys /\ d.pool = disk.pool
      /\ d.ext = disk.ext /\ IsDisk(d)
  BY <1>1 DEF IsDisk
<1> HIDE DEF u, d
<1>6. /\ e.keys = disk.keys /\ e.ckeys = d.ckeys /\ e.sx = disk.sx
      /\ e.meta = With(disk.meta, {k}, a) /\ e.mkeys = disk.mkeys
      /\ e.pool = disk.pool /\ e.ext = disk.ext /\ IsDisk(e)
  BY <1>5 DEF IsDisk
<1> HIDE DEF e
<1>7. /\ u.master = mem.master /\ u.keys = mem.keys
      /\ u.ckeys = With(mem.ckeys, {k}, Empty) /\ u.sx = mem.sx
      /\ u.meta = With(mem.meta, {k}, a) /\ u.mkeys = mem.mkeys
      /\ u.pool = mem.pool /\ u.ext = mem.ext /\ IsMem(u)
      /\ u.locking = mem.locking /\ u.raced = mem.raced
  BY <1>4 DEF IsMem
<1>8. u.crypto = TRUE
  BY <1>1, <1>4
<1>9. /\ DOMAIN d.ckeys = {k} \cup DOMAIN disk.ckeys
      /\ \A x \in DOMAIN d.ckeys : d.ckeys[x] = IF x = k THEN Empty ELSE disk.ckeys[x]
  BY <1>5 DEF With
<1>10. /\ DOMAIN e.meta = {k} \cup DOMAIN disk.meta
       /\ \A x \in DOMAIN e.meta : e.meta[x] = IF x = k THEN a ELSE disk.meta[x]
  BY <1>6 DEF With
<1>11. /\ DOMAIN u.meta = {k} \cup DOMAIN mem.meta
       /\ \A x \in DOMAIN u.meta : u.meta[x] = IF x = k THEN a ELSE mem.meta[x]
  BY <1>7 DEF With
<1>12. FileShape(d, k)
  BY <1>1, <1>3, <1>5, <1>9 DEF FileShape
<1>13. a \in DOMAIN disk.sx
  BY <1>1 DEF MemShape
<1>14. FileShape(e, k)
  BY <1>1, <1>3, <1>6, <1>9, <1>10, <1>13 DEF FileShape
<1>15. \A x \in DOMAIN d.ckeys : d.ckeys[x] \in {1, Empty}
  BY <1>2, <1>9 DEF CryptedFile
<1>23. Openable(disk) => Openable(d) /\ Openable(e)
  <2>1. k \notin DOMAIN disk.ckeys
    BY <1>1, <1>3 DEF FileShape
  <2> QED BY <1>5, <1>6, <1>9, <2>1 DEF Openable
<1>16. CryptedFile(d)
  BY <1>2, <1>5, <1>15 DEF CryptedFile
<1>17. CryptedFile(e)
  BY <1>2, <1>6, <1>15 DEF CryptedFile
<1>18. 1..k = KeysOf(d) /\ 1..k = KeysOf(e)
  <2>1. 1..nKeys = disk.keys \cup DOMAIN disk.ckeys
    BY DEF DiskOK, KeysOf
  <2> QED BY <1>3, <1>5, <1>6, <1>9, <2>1 DEF KeysOf
<1>24. c = 0 => \A x \in DOMAIN e.ckeys : e.ckeys[x] = Empty => x \in DOMAIN e.meta
  <2>1. c = 0 => \A x \in DOMAIN disk.ckeys : disk.ckeys[x] = Empty => x \in DOMAIN disk.meta
    BY DEF DiskOK
  <2> QED BY <1>6, <1>9, <1>10, <2>1
<1>19. MemShape(u, e)
  <2>1. u.ckeys = e.ckeys
    BY <1>1, <1>5, <1>6, <1>7 DEF MemShape
  <2> QED BY <1>1, <1>6, <1>7, <1>9, <1>10, <1>11, <2>1 DEF MemShape
<1>20. LockedMem(u, e, s)
  BY <1>6, <1>7, <1>8 DEF LockedMem, CryptedMem, Closed
<1>21. DiskOK(e, k, c) /\ MemOK(u, e, s, c)
  BY <1>14, <1>17, <1>18, <1>19, <1>20, <1>24 DEF DiskOK, MemOK
<1>22. \A c2 : c2 # 0 => DiskOK(d, k, c2)
  BY <1>12, <1>16, <1>18 DEF DiskOK
<1> QED BY <1>8, <1>20, <1>21, <1>22, <1>23 DEF u, d, e, k

(* A payment to a locked wallet keeps the invariant.                         *)
LEMMA ReceiveLockedStep ==
  ASSUME StoreInv, NEW a \in StealthAddrs, ReceiveLocked(a)
  PROVE  StoreInv' /\ OpensExtKeys
<1> DEFINE k == nKeys + 1
           u == [mem EXCEPT !.ckeys = With(mem.ckeys, {k}, Empty),
                            !.meta = With(mem.meta, {k}, a)]
           d == [disk EXCEPT !.ckeys = With(disk.ckeys, {k}, Empty)]
           e == [d EXCEPT !.meta = With(d.meta, {k}, a)]
<1>1. nKeys < MaxKeys /\ IsLocked(mem) /\ a \in DOMAIN mem.sx
  BY DEF ReceiveLocked
<1>2. Perform(u, e, {d}, k, timer, stopping)
  BY DEF ReceiveLocked
<1>3. /\ nKeys \in Nat /\ k \in 0..MaxKeys /\ nKeys <= k /\ crashes + 1 # 0
      /\ k \in nKeys..k
  BY <1>1, KeyStoreAssumption DEF StoreInv
<1>4. /\ DiskOK(disk, nKeys, crashes) /\ MemOK(mem, disk, stopping, crashes)
      /\ TimerOK(timer) /\ stopping \in BOOLEAN /\ Openable(disk)
  BY DEF StoreInv
<1>5. LockedMem(mem, disk, stopping)
  BY <1>1, <1>4, LockedIs
<1>6. /\ DiskOK(e, k, crashes) /\ MemOK(u, e, stopping, crashes) /\ u.crypto = TRUE
      /\ LockedMem(u, e, stopping)
      /\ \A c2 : c2 # 0 => DiskOK(d, k, c2)
      /\ Openable(d) /\ Openable(e)
  BY <1>1, <1>3, <1>4, <1>5, ReceivedOK
<1> HIDE DEF u, d, e, k
<1>7. \A x \in {d} : Left(x, k) /\ Openable(x)
  BY <1>3, <1>6 DEF Left
<1>8. StoreInv' /\ (mem' = u \/ mem'.master = NoMaster)
  BY <1>2, <1>3, <1>4, <1>6, <1>7, PerformOK
<1>9. IsLocked(u)
  BY <1>6, LockedIs
<1> QED BY <1>8, <1>9 DEF OpensExtKeys, IsLocked

(* A restart loads the file.                                                 *)
LEMMA RestartStep ==
  ASSUME StoreInv, Restart
  PROVE  StoreInv' /\ OpensExtKeys
<1>1. DiskOK(disk, nKeys, crashes) /\ Openable(disk)
  BY DEF StoreInv
<1>2. /\ MemOK(Load(disk), disk, FALSE, crashes) /\ Load(disk).master = NoMaster
  BY <1>1, LoadOK
<1>3. /\ mem' = Load(disk) /\ disk' = disk /\ timer' = Idle /\ stopping' = FALSE
      /\ nKeys' = nKeys /\ crashes' = crashes
  BY DEF Restart, Start
<1>4. TimerOK(Idle) /\ Idle.queued = 0 /\ Idle.armed = FALSE
  BY KeyStoreAssumption DEF TimerOK, Idle
<1>5. TimerOK(timer') /\ ~(timer'.armed \/ timer'.queued > 0)
  BY <1>3, <1>4
<1>6. MemOK(mem', disk', stopping', crashes') /\ mem'.master = NoMaster
  BY <1>2, <1>3
<1> QED BY <1>3, <1>5, <1>6 DEF StoreInv, OpensExtKeys, IsLocked

(* Every step keeps the invariant, unless it loses the wallet, and one that  *)
(* unlocks opens the extended keys.                                          *)
LEMMA StoreStep ==
  ASSUME StoreInv, Next
  PROVE  (~lost' => StoreInv') /\ OpensExtKeys
<1>1. CASE \E p \in Passphrases : EncryptWallet(p)
  BY <1>1, EncryptStep
<1>2. CASE \E p \in Passphrases : UnlockDialog(p)
  BY <1>2, UnlockDialogStep
<1>3. CASE \E p \in Passphrases : walletpassphrase(p)
  BY <1>3, walletpassphraseStep
<1>4. CASE walletlock \/ Expire \/ LockWallet
  BY <1>4, TimerSteps
<1>5. CASE LockDialog
  BY <1>5, LockDialogStep
<1>6. CASE LockKeyStore
  BY <1>6, LockKeyStoreStep
<1>7. CASE \E old, new \in Passphrases, rpc \in BOOLEAN :
             ChangeWalletPassphrase(old, new, rpc)
  BY <1>7, ChangePassphraseStep
<1>8. CASE ImportKey
  BY <1>8, NewKeyStep DEF ImportKey
<1>9. CASE \E a \in StealthAddrs : AddStealthAddress(a)
  BY <1>9, AddStealthStep
<1>10. CASE \E a \in StealthAddrs : ReceiveLocked(a)
  BY <1>10, ReceiveLockedStep
<1>11. CASE \E a \in StealthAddrs : ReceiveUnlocked(a)
  BY <1>11, NewKeyStep DEF ReceiveUnlocked
<1>12. CASE Restart
  BY <1>12, RestartStep
<1> QED BY <1>1, <1>2, <1>3, <1>4, <1>5, <1>6, <1>7, <1>8, <1>9, <1>10, <1>11, <1>12
        DEF Next, Commands, Payments

(* Steps that change nothing.                                                *)
LEMMA StoreStutters ==
  ASSUME StoreInv, UNCHANGED vars
  PROVE  StoreInv' /\ OpensExtKeys
<1>1. mem' = mem /\ disk' = disk /\ nKeys' = nKeys /\ timer' = timer
      /\ stopping' = stopping /\ crashes' = crashes
  BY DEF vars
<1>2. StoreInv'
  BY <1>1 DEF StoreInv
<1> QED BY <1>1, <1>2 DEF OpensExtKeys

(* A lost wallet stays lost.                                                 *)
LEMMA StaysLost ==
  ASSUME lost \in BOOLEAN, [Next]_vars
  PROVE  lost' \in BOOLEAN /\ (lost => lost')
<1>1. CASE UNCHANGED lost
  BY <1>1
<1>2. ASSUME NEW p \in Passphrases, EncryptWallet(p)
      PROVE  lost' = TRUE \/ lost' = (lost \/ ~Openable(disk'))
  BY <1>2 DEF EncryptWallet, DiesInRewrite
<1>3. CASE \E p \in Passphrases : EncryptWallet(p)
  BY <1>2, <1>3
<1>4. CASE Expire \/ LockWallet
  BY <1>4 DEF Expire, LockWallet
<1> QED BY <1>1, <1>3, <1>4 DEF Next, vars

(* The invariant of a wallet that may have been lost.                        *)
LEMMA WalletStep ==
  ASSUME WalletInv, [Next]_vars
  PROVE  WalletInv'
<1>1. lost \in BOOLEAN /\ (~lost => StoreInv)
  BY DEF WalletInv
<1>2. lost' \in BOOLEAN /\ (lost => lost')
  BY <1>1, StaysLost
<1>3. ASSUME ~lost' PROVE StoreInv'
  <2>1. StoreInv
    BY <1>1, <1>2, <1>3
  <2>2. CASE Next
    BY <1>3, <2>1, <2>2, StoreStep
  <2>3. CASE UNCHANGED vars
    BY <2>1, <2>3, StoreStutters
  <2> QED BY <2>2, <2>3
<1> QED BY <1>2, <1>3 DEF WalletInv

(* A fresh wallet.dat is sound, and a node starts on it with a plain wallet. *)
LEMMA StoreInit ==
  ASSUME Init
  PROVE  WalletInv
<1>1. nKeys \in 0..MaxKeys /\ 0 \in 0..MaxCrash
  BY KeyStoreAssumption DEF Init
<1> DEFINE d == FreshDisk(nKeys)
<1>2. /\ d.keys = 1..nKeys /\ d.ckeys = <<>> /\ d.sx = <<>> /\ d.meta = <<>>
      /\ d.mkeys = <<>> /\ d.pool = {} /\ d.ext = [e \in ExtKeys |-> Plain]
      /\ IsDisk(d)
  BY DEF FreshDisk, IsDisk
<1> HIDE DEF d
<1>3. DOMAIN d.ckeys = {} /\ DOMAIN d.sx = {} /\ DOMAIN d.meta = {}
  BY <1>2
<1>4. Openable(d) /\ 1..nKeys = KeysOf(d)
  BY <1>2, <1>3 DEF Openable, KeysOf
<1>5. FileShape(d, nKeys)
  BY <1>2, <1>3 DEF FileShape
<1>6. PlainFile(d)
  BY <1>2, <1>3 DEF PlainFile
<1>7. DiskOK(d, nKeys, 0)
  BY <1>3, <1>4, <1>5, <1>6 DEF DiskOK
<1>8. MemOK(Load(d), d, FALSE, 0)
  BY <1>4, <1>7, LoadOK
<1>9. TimerOK(Idle) /\ Idle.queued = 0 /\ Idle.armed = FALSE
  BY KeyStoreAssumption DEF TimerOK, Idle
<1>10. /\ disk = d /\ mem = Load(d) /\ timer = Idle
       /\ stopping = FALSE /\ crashes = 0 /\ lost = FALSE
  BY DEF Init, d
<1>11. TimerOK(timer) /\ ~(timer.armed \/ timer.queued > 0)
  BY <1>9, <1>10
<1> QED BY <1>1, <1>4, <1>7, <1>8, <1>10, <1>11 DEF StoreInv, WalletInv

(* The invariant gives what is said of wallet.dat.                           *)
LEMMA SoundFile ==
  ASSUME WalletInv
  PROVE  WalletFileSound
<1> SUFFICES ASSUME ~lost, StoreInv
             PROVE  /\ KeyStoreTypeOK /\ EncryptedAllOrNothing /\ RestartsEncrypted
                    /\ SecretsRecoverable /\ MemoryIsSaved
  BY DEF WalletInv, WalletFileSound
<1>0. lost \in BOOLEAN
  BY DEF WalletInv
<1>1. /\ DiskOK(disk, nKeys, crashes) /\ FileShape(disk, nKeys)
      /\ MemOK(mem, disk, stopping, crashes) /\ MemShape(mem, disk)
      /\ nKeys \in 0..MaxKeys /\ crashes \in 0..MaxCrash /\ TimerOK(timer)
      /\ PlainFile(disk) \/ CryptedFile(disk)
  BY DEF StoreInv, DiskOK, MemOK
<1>2. /\ 1 \in Secrets \ {Plain} /\ Empty \in Secrets \ {Plain}
      /\ Plain \in Secrets \ {Empty} /\ 1 \in Secrets \ {Empty}
      /\ NoMaster \in 0..Garbage /\ 1 \in 0..Garbage
  BY KeyStoreAssumption DEF Secrets, Plain, Empty, NoMaster, Garbage
<1>3. \A x \in 1..nKeys : x \in 1..MaxKeys
  BY <1>1, KeyStoreAssumption
<1>4. /\ mem.crypto \in BOOLEAN /\ mem.master \in 0..Garbage
      /\ \A a \in DOMAIN mem.sx : mem.sx[a] \in Secrets \ {Empty}
  BY <1>1, <1>2 DEF MemOK, PlainMem, LockedMem, UnlockedMem, CryptedMem
<1>5. /\ \A k \in DOMAIN disk.ckeys : disk.ckeys[k] \in Secrets \ {Plain}
      /\ \A a \in DOMAIN disk.sx : disk.sx[a] \in Secrets \ {Empty}
      /\ Len(disk.mkeys) <= MaxMaster
  <2>1. CASE PlainFile(disk)
    <3>1. Len(disk.mkeys) = 0
      BY <2>1 DEF PlainFile
    <3> QED BY <1>2, <2>1, <3>1, KeyStoreAssumption DEF PlainFile
  <2>2. CASE CryptedFile(disk)
    <3>1. Len(disk.mkeys) = 1
      BY <2>2 DEF CryptedFile
    <3> QED BY <1>2, <2>2, <3>1, KeyStoreAssumption DEF CryptedFile
  <2> QED BY <1>1, <2>1, <2>2
<1>6. KeyStoreTypeOK
  <2>1. /\ disk.keys \subseteq 1..MaxKeys /\ disk.pool \subseteq 1..MaxKeys
        /\ DOMAIN disk.ckeys \subseteq 1..MaxKeys
        /\ DOMAIN disk.sx \subseteq StealthAddrs
        /\ \A k \in DOMAIN disk.meta : k \in 1..MaxKeys /\ disk.meta[k] \in StealthAddrs
    BY <1>1, <1>3 DEF FileShape
  <2>2. /\ mem.keys \subseteq 1..MaxKeys /\ mem.pool \subseteq 1..MaxKeys
        /\ DOMAIN mem.ckeys \subseteq 1..MaxKeys
        /\ DOMAIN mem.sx \subseteq StealthAddrs
        /\ \A k \in DOMAIN mem.meta : k \in 1..MaxKeys /\ mem.meta[k] \in StealthAddrs
        /\ \A k \in DOMAIN mem.ckeys : mem.ckeys[k] \in Secrets \ {Plain}
        /\ Len(mem.mkeys) <= MaxMaster
    BY <1>1, <1>5, <2>1 DEF MemShape
  <2>3. \A w \in {mem, disk} :
          /\ w.keys \subseteq 1..MaxKeys /\ w.pool \subseteq 1..MaxKeys
          /\ DOMAIN w.ckeys \subseteq 1..MaxKeys
          /\ \A k \in DOMAIN w.ckeys : w.ckeys[k] \in Secrets \ {Plain}
          /\ DOMAIN w.sx \subseteq StealthAddrs
          /\ \A a \in DOMAIN w.sx : w.sx[a] \in Secrets \ {Empty}
          /\ \A k \in DOMAIN w.meta : k \in 1..MaxKeys /\ w.meta[k] \in StealthAddrs
          /\ Len(w.mkeys) <= MaxMaster
    BY <1>4, <1>5, <2>1, <2>2
  <2>4. mem.locking \in BOOLEAN /\ mem.raced \in BOOLEAN
    BY <1>1 DEF MemShape
  <2> QED BY <1>0, <1>1, <1>4, <2>3, <2>4 DEF KeyStoreTypeOK, TimerOK, StoreInv
<1>7. CASE PlainFile(disk)
  <2>1. EncryptedAllOrNothing /\ RestartsEncrypted
    BY <1>7 DEF PlainFile, EncryptedAllOrNothing, RestartsEncrypted
  <2>2. SecretsRecoverable
    BY <1>7 DEF PlainFile, SecretsRecoverable
  <2> QED BY <2>1, <2>2, <1>1, <1>6
          DEF MemoryIsSaved, MemShape, DiskOK
<1>8. CASE CryptedFile(disk)
  <2>1. disk.mkeys # <<>> /\ DOMAIN disk.ckeys # {}
    <3>1. disk.mkeys # <<>>
      BY <1>8 DEF CryptedFile
    <3> QED BY <3>1 DEF StoreInv, Openable
  <2>2. EncryptedAllOrNothing
    BY <1>8, <2>1 DEF CryptedFile, EncryptedAllOrNothing, Plain
  <2>3. RestartsEncrypted
    <3>1. Load(disk).crypto = (DOMAIN disk.ckeys # {})
      BY Zenon DEF Load
    <3> QED BY <2>1, <3>1 DEF RestartsEncrypted
  <2>4. SecretsRecoverable
    <3>1. ASSUME NEW k \in DOMAIN disk.ckeys, disk.ckeys[k] = Empty
          PROVE  \/ k \in DOMAIN disk.meta /\ disk.meta[k] \in DOMAIN disk.sx
                 \/ crashes > 0
      BY <1>1, <3>1 DEF DiskOK, FileShape
    <3> QED BY <1>8, <2>1, <3>1 DEF CryptedFile, SecretsRecoverable
  <2> QED BY <2>2, <2>3, <2>4, <1>1, <1>6
          DEF MemoryIsSaved, MemShape, DiskOK
<1> QED BY <1>1, <1>7, <1>8

(* And what is said of a locked and of an unlocked wallet.                   *)
LEMMA SoundLock ==
  ASSUME WalletInv
  PROVE  LockState
<1> SUFFICES ASSUME StoreInv
             PROVE  LockedHoldsNoSecret /\ UnlockedIsUsable /\ PassphraseUnlocks
  BY DEF WalletInv, LockState
<1>1. /\ DiskOK(disk, nKeys, crashes) /\ MemOK(mem, disk, stopping, crashes)
      /\ MemShape(mem, disk) /\ Openable(disk)
  BY DEF StoreInv, MemOK
<1>2. LockedHoldsNoSecret
  <2> SUFFICES ASSUME IsLocked(mem), ~stopping, ~mem.raced
               PROVE  /\ mem.keys = {}
                      /\ \A a \in DOMAIN mem.sx : mem.sx[a] # Plain
                      /\ \A e \in ExtKeys : ~mem.ext[e].key
    BY DEF LockedHoldsNoSecret
  <2>1. LockedMem(mem, disk, stopping)
    BY <1>1, LockedIs
  <2>2. CryptedFile(disk)
    BY <1>1, <2>1, ModeOfFile DEF LockedMem, CryptedMem
  <2>3. /\ \A a \in DOMAIN mem.sx : mem.sx[a] = 1
        /\ \A e \in ExtKeys : mem.ext[e].key = FALSE
    BY <2>1 DEF LockedMem, Closed
  <2>4. mem.keys = {}
    BY <1>1, <2>2 DEF CryptedFile, MemShape
  <2> QED BY <2>3, <2>4 DEF Plain
<1>3. UnlockedIsUsable
  <2> SUFFICES ASSUME mem.crypto, ~IsLocked(mem), ~mem.locking
               PROVE  /\ \A a \in DOMAIN mem.sx : mem.sx[a] = Plain
                      /\ \A k \in DOMAIN mem.ckeys :
                           crashes = 0 \/ k \in DOMAIN mem.meta => mem.ckeys[k] # Empty
    BY DEF UnlockedIsUsable
  <2>1. UnlockedMem(mem, disk, stopping, crashes)
    BY <1>1, LockedIs
  <2> QED BY <2>1 DEF UnlockedMem, Usable
<1>4. PassphraseUnlocks
  <2> SUFFICES ASSUME mem.crypto
               PROVE  Len(mem.mkeys) = 1 /\ KeyStoreUnlocks(mem, 1)
    BY DEF PassphraseUnlocks
  <2>1. mem.crypto = TRUE
    BY <1>1, LockedIs
  <2>2. CryptedFile(disk) /\ KeyStoreUnlocks(mem, 1)
    BY <1>1, <2>1, ModeOfFile, OneMaster
  <2>3. \E p : mem.mkeys = <<p>>
    BY <1>1, <2>2 DEF CryptedFile, MemShape
  <2> QED BY <2>2, <2>3
<1> QED BY <1>2, <1>3, <1>4

-----------------------------------------------------------------------------
(* wallet.dat is sound after every write, wherever the node dies, whether    *)
(* the wallet had keys of its own or not: it is a plain or an encrypted one  *)
(* and never half of each, starts as what it is, has every key ever written  *)
(* and has what is needed to recover every secret; unless EncryptWallet died *)
(* in CDB::Rewrite or left a wallet that had no key without one.             *)
THEOREM WalletFileAlwaysSound == Spec => []WalletFileSound
<1>1. Init => WalletInv
  BY StoreInit
<1>2. WalletInv /\ [Next]_vars => WalletInv'
  BY WalletStep
<1>3. WalletInv => WalletFileSound
  BY SoundFile
<1> QED BY <1>1, <1>2, <1>3, PTL DEF Spec

(* A locked wallet holds no secret, but for one opened while the dialog was  *)
(* locking it, and opens with its passphrase; an unlocked one that is not    *)
(* being locked has every secret.                                            *)
THEOREM LockStateAlwaysTrue == Spec => []LockState
<1>1. Init => WalletInv
  BY StoreInit
<1>2. WalletInv /\ [Next]_vars => WalletInv'
  BY WalletStep
<1>3. WalletInv => LockState
  BY SoundLock
<1> QED BY <1>1, <1>2, <1>3, PTL DEF Spec

(* No step unlocks the wallet and leaves an extended key locked.             *)
THEOREM ExtKeysOpenWithWallet == Spec => UnlockOpensExtKeys
<1>1. Init => WalletInv
  BY StoreInit
<1>2. WalletInv /\ [Next]_vars => WalletInv'
  BY WalletStep
<1>3. WalletInv /\ [Next]_vars =>
        [~lost' /\ IsLocked(mem) /\ mem'.crypto /\ ~IsLocked(mem') =>
           \A e \in ExtKeys : mem'.ext[e].key]_vars
  <2>1. ASSUME WalletInv, Next, ~lost' PROVE OpensExtKeys
    <3>1. ~lost
      BY <2>1, StaysLost DEF WalletInv
    <3>2. StoreInv
      BY <2>1, <3>1 DEF WalletInv
    <3> QED BY <2>1, <3>2, StoreStep
  <2> QED BY <2>1 DEF OpensExtKeys
<1> QED BY <1>1, <1>2, <1>3, PTL DEF Spec, UnlockOpensExtKeys
=============================================================================
