-------------------------- MODULE RomUploadsProofs --------------------------
(***************************************************************************)
(* Theorems about RomUploads for any number of uploads, files and          *)
(* platforms.  Every step is a step of one upload, which touches the       *)
(* objects under its own two keys only; so the invariant is a conjunct per *)
(* upload, and a step has to establish that of its own upload.             *)
(***************************************************************************)
EXTENDS RomUploads, TLAPS

KeysOf(u) == {<<u, "grant">>, <<u, "direct">>}

\* Where a page has its key from, and that the handler runs for a page that is
\* past its verification.
KeyOK(u) ==
  /\ up[u].pc \in {"new", "grant"} => up[u].key = NoKey
  /\ up[u].pc \in {"put", "direct"} => up[u].key = <<u, "grant">>
  /\ up[u].pc \in (Working \ {"grant"}) \cup {"report"} => up[u].key \in KeysOf(u)
  /\ reg[u] # "none" => /\ up[u].pc \in {"register", "report"} \cup Final
                        /\ up[u].key \in KeysOf(u)

\* A PUT that may still be applied is not to the object that is registered.
FlyingOK(u) ==
  u \in flying =>
    /\ up[u].cut \/ up[u].pc = "closed"
    /\ up[u].key \in KeysOf(u)
    /\ up[u].key = <<u, "grant">> =>
         reg[u] = "none" /\ up[u].pc \in {"direct", "report", "failed", "cleaned", "closed"}

\* Unless a call was cut off, an object is under the page's key, and before the
\* upload and after the cleanup there is none.
TidyOK(u) ==
  ~up[u].cut /\ up[u].pc # "closed" =>
    \A k \in KeysOf(u) : obj[k] # NoFile =>
      up[u].key = k /\ up[u].pc \notin {"new", "grant", "put", "direct", "cleaned"}

LateOK(u) ==
  up[u].late => Catalogued(up[u].file) /\ reg[u] \notin {"platform", "newPlatform", "create"}

PlatformOK(u) == reg[u] = "create" => up[u].plat \in platforms

SignOK(u) == reg[u] = "sign" => Catalogued(up[u].file)

\* While a file that does not fail late is being registered the page waits or is
\* closed, and the object that was verified stays.
ServedOK(u) ==
  up[u].file \notin LateFiles =>
    /\ reg[u] \in {"verify", "describe", "find", "platform", "newPlatform", "create", "sign"}
         => up[u].pc \in {"register", "closed"}
    /\ reg[u] \in {"describe", "find", "platform", "newPlatform", "create"}
         => obj[up[u].key] = up[u].file

\* A row under a key of this upload: it is for the file the page hashed, and its
\* object is there.
RowOK(u) ==
  \A a \in assets : a.key \in KeysOf(u) /\ a.sum \notin LateFiles =>
    /\ a.key = up[u].key /\ a.sum = up[u].file /\ obj[a.key] = a.sum
    /\ reg[u] \in {"sign", "done"} /\ up[u].pc \in {"register", "complete", "closed"}

UploadOK(u) ==
  /\ KeyOK(u) /\ FlyingOK(u) /\ TidyOK(u) /\ LateOK(u)
  /\ PlatformOK(u) /\ SignOK(u) /\ ServedOK(u) /\ RowOK(u)

Contents == Files \cup {NoFile, Garbage}

Typed ==
  /\ obj \in [Keys -> Contents]
  /\ flying \subseteq Uploads /\ platforms \subseteq Platforms
  /\ assets \subseteq [key : Keys, sum : Files, plat : platforms]
  /\ up \in [Uploads -> Page]
  /\ reg \in [Uploads -> RegPCs]

Inv == Typed /\ \A u \in Uploads : UploadOK(u)

USE RomUploadsAssumption

\* The two keys of an upload are keys, and no other upload's.
LEMMA KeyFacts ==
  /\ NoKey \notin Keys
  /\ \A u \in Uploads :
       /\ KeysOf(u) \subseteq Keys /\ <<u, "grant">> # <<u, "direct">>
       /\ \A v \in Uploads : u # v => KeysOf(u) \cap KeysOf(v) = {}
  /\ \A k \in Keys : \E u \in Uploads : k \in KeysOf(u)
<1>1. NoKey \notin Keys
  BY DEF NoKey, Keys
<1>2. ASSUME NEW u \in Uploads
      PROVE  /\ KeysOf(u) \subseteq Keys /\ <<u, "grant">> # <<u, "direct">>
             /\ \A v \in Uploads : u # v => KeysOf(u) \cap KeysOf(v) = {}
  BY DEF KeysOf, Keys
<1>3. ASSUME NEW k \in Keys PROVE \E u \in Uploads : k \in KeysOf(u)
  BY DEF KeysOf, Keys
<1> QED BY <1>1, <1>2, <1>3

\* Initially nothing is stored, and no form has been submitted.
LEMMA InvInit == Init => Inv
<1> SUFFICES ASSUME Init PROVE Inv
  OBVIOUS
<1>1. Typed
  BY DEF Init, Typed, Contents, RegPCs
<1>2. ASSUME NEW u \in Uploads PROVE UploadOK(u)
  <2>1. up[u].pc = "new" /\ up[u].key = NoKey /\ ~up[u].cut /\ ~up[u].late /\ reg[u] = "none"
    BY DEF Init
  <2>2. \A k \in KeysOf(u) : obj[k] = NoFile
    BY KeyFacts DEF Init
  <2> QED
    BY <2>1, <2>2 DEF Init, UploadOK, KeyOK, FlyingOK, TidyOK, LateOK, PlatformOK, SignOK,
                      ServedOK, RowOK, Working
<1> QED BY <1>1, <1>2 DEF Inv

-----------------------------------------------------------------------------
(***************************************************************************)
(* A step of one upload.                                                   *)
(***************************************************************************)
\* Pages, handlers, objects and rows of the others are left alone; rows and
\* platforms are never removed.
Own(u) ==
  /\ \A v \in Uploads \ {u} : /\ up'[v] = up[v] /\ reg'[v] = reg[v]
                              /\ v \in flying' <=> v \in flying
                              /\ \A k \in KeysOf(v) : obj'[k] = obj[k]
  /\ up'[u].file = up[u].file /\ up'[u].plat = up[u].plat
  /\ assets \subseteq assets' /\ platforms \subseteq platforms'
  /\ \A a \in assets' \ assets : a.key \in KeysOf(u)

\* What holds of the other uploads still holds.
LEMMA OthersKeep ==
  ASSUME Inv, NEW u \in Uploads, Own(u), Typed', UploadOK(u)'
  PROVE  Inv'
<1>1. ASSUME NEW v \in Uploads, v # u PROVE UploadOK(v)'
  <2>1. /\ up'[v] = up[v] /\ reg'[v] = reg[v] /\ (v \in flying' <=> v \in flying)
        /\ \A k \in KeysOf(v) : obj'[k] = obj[k]
        /\ assets \subseteq assets' /\ platforms \subseteq platforms'
        /\ \A a \in assets' \ assets : a.key \notin KeysOf(v)
    BY <1>1, KeyFacts DEF Own
  <2>2. UploadOK(v) /\ (Catalogued(up[v].file) => Catalogued(up[v].file)')
    BY <2>1 DEF Inv, Catalogued
  <2>3. KeyOK(v)' /\ FlyingOK(v)' /\ TidyOK(v)'
    BY <2>1, <2>2 DEF UploadOK, KeyOK, FlyingOK, TidyOK, KeysOf
  <2>4. LateOK(v)' /\ PlatformOK(v)' /\ SignOK(v)'
    BY <2>1, <2>2 DEF UploadOK, LateOK, PlatformOK, SignOK, Catalogued
  <2>5. ServedOK(v)'
    BY <2>1, <2>2 DEF UploadOK, ServedOK, KeyOK
  <2>6. RowOK(v)'
    BY <2>1, <2>2 DEF UploadOK, RowOK
  <2> QED BY <2>3, <2>4, <2>5, <2>6 DEF UploadOK
<1> QED BY <1>1 DEF Inv

\* The page of one upload changes; what it was submitted with stays.
PageMoves(u) ==
  /\ up' \in [Uploads -> Page]
  /\ \A v \in Uploads \ {u} : up'[v] = up[v]
  /\ up'[u].file = up[u].file /\ up'[u].plat = up[u].plat /\ up'[u].late = up[u].late

\* A page goes to another state with a new key, or after a call that was cut off.
GotoWithKey(u, p, k) == up' = [up EXCEPT ![u].pc = p, ![u].key = k]

GotoByCut(u, p) == up' = [up EXCEPT ![u].pc = p, ![u].cut = TRUE]

\* The page goes to another state.
LEMMA Moved ==
  ASSUME Typed, NEW u \in Uploads, NEW p \in PCs, Goto(u, p)
  PROVE  PageMoves(u) /\ up'[u].pc = p /\ up'[u].key = up[u].key /\ up'[u].cut = up[u].cut
<1>1. up[u] \in Page /\ up' = [up EXCEPT ![u] = [up[u] EXCEPT !.pc = p]]
  BY DEF Typed, Goto
<1> DEFINE r == [up[u] EXCEPT !.pc = p]
<1>2. /\ r \in Page /\ r.pc = p /\ r.key = up[u].key /\ r.cut = up[u].cut
      /\ r.file = up[u].file /\ r.plat = up[u].plat /\ r.late = up[u].late
  BY <1>1 DEF Page
<1>3. up'[u] = r
  BY <1>1 DEF Typed
<1> HIDE DEF r
<1> QED BY <1>1, <1>2, <1>3 DEF Typed, PageMoves

\* It goes on with the key of a grant or of a direct upload.
LEMMA MovedWithKey ==
  ASSUME Typed, NEW u \in Uploads, NEW p \in PCs, NEW k \in Keys,
         GotoWithKey(u, p, k)
  PROVE  PageMoves(u) /\ up'[u].pc = p /\ up'[u].key = k /\ up'[u].cut = up[u].cut
<1> DEFINE r == [up[u] EXCEPT !.pc = p, !.key = k]
<1>1. up[u] \in Page /\ up' = [up EXCEPT ![u] = r]
  BY DEF Typed, GotoWithKey
<1>2. /\ r \in Page /\ r.pc = p /\ r.key = k /\ r.cut = up[u].cut
      /\ r.file = up[u].file /\ r.plat = up[u].plat /\ r.late = up[u].late
  BY <1>1 DEF Page
<1>3. up'[u] = r
  BY <1>1 DEF Typed
<1> HIDE DEF r
<1> QED BY <1>1, <1>2, <1>3 DEF Typed, PageMoves

\* It goes on after a call that was cut off.
LEMMA MovedByCut ==
  ASSUME Typed, NEW u \in Uploads, NEW p \in PCs,
         GotoByCut(u, p)
  PROVE  PageMoves(u) /\ up'[u].pc = p /\ up'[u].key = up[u].key /\ up'[u].cut
<1> DEFINE r == [up[u] EXCEPT !.pc = p, !.cut = TRUE]
<1>1. up[u] \in Page /\ up' = [up EXCEPT ![u] = r]
  BY DEF Typed, GotoByCut
<1>2. /\ r \in Page /\ r.pc = p /\ r.key = up[u].key /\ r.cut
      /\ r.file = up[u].file /\ r.plat = up[u].plat /\ r.late = up[u].late
  BY <1>1 DEF Page
<1>3. up'[u] = r
  BY <1>1 DEF Typed
<1> HIDE DEF r
<1> QED BY <1>1, <1>2, <1>3 DEF Typed, PageMoves

\* The registration is sent.
LEMMA Sent ==
  ASSUME Typed, NEW u \in Uploads, SendRegistration(u)
  PROVE  /\ up' \in [Uploads -> Page] /\ reg' \in [Uploads -> RegPCs]
         /\ \A v \in Uploads \ {u} : up'[v] = up[v] /\ reg'[v] = reg[v]
         /\ up'[u].pc = "register" /\ up'[u].key = up[u].key /\ up'[u].cut = up[u].cut
         /\ up'[u].file = up[u].file /\ up'[u].plat = up[u].plat
         /\ up'[u].late = Catalogued(up[u].file) /\ reg'[u] = "verify"
<1> DEFINE late == Catalogued(up[u].file)
           r == [up[u] EXCEPT !.pc = "register", !.late = late]
<1>1. up[u] \in Page /\ up' = [up EXCEPT ![u] = r]
  BY DEF Typed, SendRegistration
<1>2. late \in BOOLEAN
  BY DEF Catalogued
<1> HIDE DEF late
<1>3. /\ r \in Page /\ r.pc = "register" /\ r.key = up[u].key /\ r.cut = up[u].cut
      /\ r.file = up[u].file /\ r.plat = up[u].plat /\ r.late = late
  BY <1>1, <1>2 DEF Page, PCs, Working
<1>4. up'[u] = r
  BY <1>1 DEF Typed
<1> HIDE DEF r
<1>5. up' \in [Uploads -> Page] /\ \A v \in Uploads \ {u} : up'[v] = up[v]
  BY <1>1, <1>3, <1>4 DEF Typed
<1>6. reg' \in [Uploads -> RegPCs] /\ reg'[u] = "verify" /\ \A v \in Uploads \ {u} : reg'[v] = reg[v]
  BY DEF Typed, SendRegistration, RegGoto, RegPCs
<1> QED BY <1>3, <1>4, <1>5, <1>6 DEF late

\* The object under one key is written or deleted.
LEMMA Stores ==
  ASSUME Typed, NEW u \in Uploads, NEW k \in KeysOf(u), NEW c \in Contents,
         obj' = [obj EXCEPT ![k] = c]
  PROVE  /\ obj' \in [Keys -> Contents] /\ obj'[k] = c
         /\ \A l \in KeysOf(u) \ {k} : obj'[l] = obj[l]
         /\ \A v \in Uploads \ {u} : \A l \in KeysOf(v) : obj'[l] = obj[l]
<1>1. k \in Keys /\ KeysOf(u) \subseteq Keys /\ \A v \in Uploads \ {u} : KeysOf(v) \subseteq Keys \ {k}
  BY KeyFacts
<1> QED BY <1>1 DEF Typed

-----------------------------------------------------------------------------
(***************************************************************************)
(* Steps of the page before it registers.                                  *)
(***************************************************************************)
\* What a step has to show that leaves handlers, rows and platforms alone, of an
\* upload whose registration was not sent yet.
LEMMA BeforeRegistration ==
  ASSUME Inv, NEW u \in Uploads, reg[u] = "none", UNCHANGED <<reg, assets, platforms>>,
         obj' \in [Keys -> Contents], flying' \subseteq Uploads, up' \in [Uploads -> Page],
         \A v \in Uploads \ {u} : /\ up'[v] = up[v] /\ (v \in flying' <=> v \in flying)
                                  /\ \A k \in KeysOf(v) : obj'[k] = obj[k],
         up'[u].file = up[u].file, up'[u].plat = up[u].plat, up'[u].late = up[u].late,
         KeyOK(u)', FlyingOK(u)', TidyOK(u)'
  PROVE  Inv'
<1>1. Typed'
  BY DEF Inv, Typed
<1>a. Own(u)
  BY DEF Own
<1>2. LateOK(u)' /\ PlatformOK(u)' /\ SignOK(u)' /\ ServedOK(u)'
  BY DEF Inv, UploadOK, LateOK, PlatformOK, SignOK, ServedOK, Catalogued
<1>3. RowOK(u)'
  BY DEF Inv, UploadOK, RowOK
<1> QED BY <1>1, <1>a, <1>2, <1>3, OthersKeep DEF UploadOK

\* Of a page in one of these states the registration was not sent.
LEMMA NotSent ==
  ASSUME Inv, NEW u \in Uploads, up[u].pc \in {"new", "grant", "put", "direct", "verify"}
  PROVE  reg[u] = "none"
BY DEF Inv, UploadOK, KeyOK, Final

\* The form is submitted.
LEMMA SubmitKeeps == ASSUME Inv, NEW u \in Uploads, Submit(u) PROVE Inv'
<1>1. reg[u] = "none"
  BY NotSent DEF Submit, At
<1>2. "grant" \in PCs /\ Typed
  BY DEF PCs, Working, Inv
<1>3. PageMoves(u) /\ up'[u].pc = "grant" /\ up'[u].key = up[u].key /\ up'[u].cut = up[u].cut
  BY <1>2, Moved DEF Submit
<1>4. up[u].pc = "new" /\ UNCHANGED <<obj, flying, assets, platforms, reg>>
  BY DEF Submit, At
<1>5. up[u].key = NoKey /\ u \notin flying
  BY <1>4, KeyFacts DEF Inv, UploadOK, KeyOK, FlyingOK
<1>6. KeyOK(u)' /\ FlyingOK(u)' /\ TidyOK(u)'
  BY <1>1, <1>3, <1>4, <1>5 DEF Inv, UploadOK, KeyOK, FlyingOK, TidyOK, Working, KeysOf
<1> QED BY <1>1, <1>2, <1>3, <1>4, <1>6, BeforeRegistration DEF Typed, PageMoves

\* A presigned grant, or its refusal.
LEMMA GrantKeeps == ASSUME Inv, NEW u \in Uploads, Grant(u) PROVE Inv'
<1>1. reg[u] = "none" /\ up[u].pc = "grant" /\ UNCHANGED <<obj, flying, assets, platforms, reg>>
  BY NotSent DEF Grant, At
<1>2. up[u].key = NoKey /\ u \notin flying /\ Typed /\ <<u, "grant">> \in KeysOf(u)
  <2>1. UploadOK(u) /\ Typed
    BY DEF Inv
  <2>2. <<u, "grant">> \in KeysOf(u)
    BY DEF KeysOf
  <2>3. NoKey \notin KeysOf(u)
    BY KeyFacts
  <2> QED BY <1>1, <2>1, <2>2, <2>3 DEF UploadOK, KeyOK, FlyingOK
<1>3. "put" \in PCs /\ "failed" \in PCs /\ <<u, "grant">> \in Keys
  BY KeyFacts DEF PCs, Working, Final, KeysOf
<1>4. CASE Granted(u)
  <2>1. PageMoves(u) /\ up'[u].pc = "put" /\ up'[u].key = <<u, "grant">> /\ up'[u].cut = up[u].cut
    <3>1. GotoWithKey(u, "put", <<u, "grant">>)
      BY <1>4 DEF Granted, GotoWithKey
    <3> QED BY <1>2, <1>3, <3>1, MovedWithKey
  <2>2. KeyOK(u)' /\ FlyingOK(u)'
    BY <1>1, <1>2, <2>1 DEF KeyOK, FlyingOK
  <2>3. TidyOK(u)'
    BY <1>1, <1>2, <2>1, KeyFacts DEF Inv, UploadOK, TidyOK
  <2> QED BY <1>1, <1>2, <2>1, <2>2, <2>3, BeforeRegistration DEF Typed, PageMoves
<1>5. CASE Goto(u, Caught(u))
  <2>1. Caught(u) = "failed"
    BY <1>2 DEF Caught
  <2>2. PageMoves(u) /\ up'[u].pc = "failed" /\ up'[u].key = up[u].key /\ up'[u].cut = up[u].cut
    BY <1>2, <1>3, <1>5, <2>1, Moved
  <2>3. KeyOK(u)' /\ FlyingOK(u)' /\ TidyOK(u)'
    BY <1>1, <1>2, <2>2, KeyFacts DEF Inv, UploadOK, KeyOK, FlyingOK, TidyOK, Working
  <2> QED BY <1>1, <1>2, <2>2, <2>3, BeforeRegistration DEF Typed, PageMoves
<1> QED BY <1>4, <1>5 DEF Grant

\* The registration is sent, for the object under the page's key.
LEMMA SendKeeps ==
  ASSUME Inv, NEW u \in Uploads, SendRegistration(u), UNCHANGED <<flying, assets, platforms>>,
         up[u].pc \in {"put", "verify"},
         obj' \in [Keys -> Contents],
         \A v \in Uploads \ {u} : \A k \in KeysOf(v) : obj'[k] = obj[k],
         \A k \in KeysOf(u) : obj'[k] # NoFile => up[u].key = k \/ up[u].cut
  PROVE  Inv'
<1>1. Typed /\ UploadOK(u) /\ reg[u] = "none"
  BY NotSent DEF Inv
<1>2. /\ up' \in [Uploads -> Page] /\ reg' \in [Uploads -> RegPCs]
      /\ \A v \in Uploads \ {u} : up'[v] = up[v] /\ reg'[v] = reg[v]
      /\ up'[u].pc = "register" /\ up'[u].key = up[u].key /\ up'[u].cut = up[u].cut
      /\ up'[u].file = up[u].file /\ up'[u].plat = up[u].plat
      /\ up'[u].late = Catalogued(up[u].file) /\ reg'[u] = "verify"
  BY <1>1, Sent
<1>3. Typed'
  BY <1>1, <1>2 DEF Typed
<1>4. Own(u)
  BY <1>2 DEF Own
<1>5. up[u].key \in KeysOf(u)
  BY <1>1 DEF UploadOK, KeyOK, KeysOf, Working
<1>6. KeyOK(u)'
  BY <1>2, <1>5 DEF KeyOK, Working
<1>7. FlyingOK(u)'
  BY <1>1, <1>2 DEF UploadOK, FlyingOK
<1>8. TidyOK(u)'
  BY <1>2 DEF TidyOK
<1>9. LateOK(u)' /\ PlatformOK(u)' /\ SignOK(u)' /\ ServedOK(u)'
  BY <1>2 DEF LateOK, PlatformOK, SignOK, ServedOK, Catalogued
<1>10. RowOK(u)'
  BY <1>1 DEF UploadOK, RowOK
<1> QED BY <1>3, <1>4, <1>6, <1>7, <1>8, <1>9, <1>10, OthersKeep DEF UploadOK

\* The presigned PUT is applied.
LEMMA PutKeeps == ASSUME Inv, NEW u \in Uploads, Put(u) PROVE Inv'
<1>1. /\ Typed /\ UploadOK(u) /\ reg[u] = "none" /\ up[u].pc = "put"
      /\ UNCHANGED <<flying, assets, platforms>>
  BY NotSent DEF Inv, Put, At
<1>2. PICK c \in Stored(up[u].file) : obj' = [obj EXCEPT ![<<u, "grant">>] = c]
  BY DEF Put
<1>3. c \in Contents /\ up[u].file \in Files
  BY <1>1 DEF Stored, Contents, Typed, Page
<1>4. <<u, "grant">> \in KeysOf(u) /\ <<u, "grant">> # <<u, "direct">>
  BY KeyFacts DEF KeysOf
<1>5. /\ obj' \in [Keys -> Contents]
      /\ \A l \in KeysOf(u) \ {<<u, "grant">>} : obj'[l] = obj[l]
      /\ \A v \in Uploads \ {u} : \A l \in KeysOf(v) : obj'[l] = obj[l]
  BY <1>1, <1>2, <1>3, <1>4, Stores
<1>6. up[u].key = <<u, "grant">> /\ u \notin flying
  BY <1>1 DEF UploadOK, KeyOK, FlyingOK
<1>7. \A k \in KeysOf(u) : obj'[k] # NoFile => up[u].key = k \/ up[u].cut
  BY <1>1, <1>5, <1>6 DEF UploadOK, TidyOK
<1>8. CASE up[u].kind = "page"
  <2>1. "verify" \in PCs /\ Goto(u, "verify") /\ UNCHANGED reg
    BY <1>8 DEF Put, PCs, Working
  <2>2. PageMoves(u) /\ up'[u].pc = "verify" /\ up'[u].key = up[u].key /\ up'[u].cut = up[u].cut
    BY <1>1, <2>1, Moved
  <2>3. KeyOK(u)' /\ FlyingOK(u)' /\ TidyOK(u)'
    BY <1>1, <1>4, <1>6, <1>7, <2>1, <2>2 DEF KeyOK, FlyingOK, TidyOK, Working
  <2> QED BY <1>1, <1>5, <2>1, <2>2, <2>3, BeforeRegistration DEF Typed, PageMoves
<1>9. CASE up[u].kind # "page"
  BY <1>1, <1>5, <1>7, <1>9, SendKeeps DEF Put
<1> QED BY <1>8, <1>9

\* The presigned PUT is refused.
LEMMA PutRefusedKeeps == ASSUME Inv, NEW u \in Uploads, PutRefused(u) PROVE Inv'
<1>1. /\ Typed /\ UploadOK(u) /\ reg[u] = "none" /\ up[u].pc = "put"
      /\ UNCHANGED <<obj, flying, assets, platforms, reg>>
  BY NotSent DEF Inv, PutRefused, At
<1>2. PICK p \in AfterBadPut(u) : Goto(u, p)
  BY DEF PutRefused
<1>3. p \in {"direct", "report", "failed"} /\ p \in PCs
  BY DEF AfterBadPut, PCs, Working, Final
<1>4. PageMoves(u) /\ up'[u].pc = p /\ up'[u].key = up[u].key /\ up'[u].cut = up[u].cut
  BY <1>1, <1>2, <1>3, Moved
<1>5. up[u].key = <<u, "grant">> /\ up[u].key \in KeysOf(u)
  BY <1>1 DEF UploadOK, KeyOK, KeysOf
<1>6. KeyOK(u)' /\ FlyingOK(u)' /\ TidyOK(u)'
  BY <1>1, <1>3, <1>4, <1>5 DEF UploadOK, KeyOK, FlyingOK, TidyOK, Working
<1> QED BY <1>1, <1>4, <1>6, BeforeRegistration DEF Typed, PageMoves

\* The presigned PUT is cut off.
LEMMA PutCutOffKeeps == ASSUME Inv, NEW u \in Uploads, PutCutOff(u) PROVE Inv'
<1>1. /\ Typed /\ UploadOK(u) /\ reg[u] = "none" /\ up[u].pc = "put"
      /\ UNCHANGED <<obj, assets, platforms, reg>> /\ flying' = flying \cup {u}
  BY NotSent DEF Inv, PutCutOff, At
<1>2. PICK p \in AfterBadPut(u) : GotoByCut(u, p)
  BY DEF PutCutOff, GotoByCut
<1>3. p \in {"direct", "report", "failed"} /\ p \in PCs
  BY DEF AfterBadPut, PCs, Working, Final
<1>4. PageMoves(u) /\ up'[u].pc = p /\ up'[u].key = up[u].key /\ up'[u].cut
  BY <1>1, <1>2, <1>3, MovedByCut
<1>5. up[u].key = <<u, "grant">> /\ up[u].key \in KeysOf(u)
  BY <1>1 DEF UploadOK, KeyOK, KeysOf
<1>6. KeyOK(u)' /\ FlyingOK(u)' /\ TidyOK(u)'
  BY <1>1, <1>3, <1>4, <1>5 DEF UploadOK, KeyOK, FlyingOK, TidyOK, Working
<1> QED BY <1>1, <1>4, <1>6, BeforeRegistration DEF Typed, PageMoves

\* The direct upload is applied, and its key replaces the first one.
LEMMA DirectKeeps == ASSUME Inv, NEW u \in Uploads, Direct(u) PROVE Inv'
<1>1. /\ Typed /\ UploadOK(u) /\ reg[u] = "none" /\ up[u].pc = "direct"
      /\ UNCHANGED <<flying, assets, platforms, reg>>
      /\ obj' = [obj EXCEPT ![<<u, "direct">>] = up[u].file]
      /\ GotoWithKey(u, "verify", <<u, "direct">>)
  BY NotSent DEF Inv, Direct, At, GotoWithKey
<1>2. <<u, "direct">> \in KeysOf(u) /\ <<u, "direct">> \in Keys /\ <<u, "grant">> # <<u, "direct">>
  BY KeyFacts DEF KeysOf
<1>3. up[u].file \in Contents /\ "verify" \in PCs
  BY <1>1 DEF Typed, Page, Contents, PCs, Working
<1>4. /\ obj' \in [Keys -> Contents]
      /\ \A l \in KeysOf(u) \ {<<u, "direct">>} : obj'[l] = obj[l]
      /\ \A v \in Uploads \ {u} : \A l \in KeysOf(v) : obj'[l] = obj[l]
  BY <1>1, <1>2, <1>3, Stores
<1>5. PageMoves(u) /\ up'[u].pc = "verify" /\ up'[u].key = <<u, "direct">> /\ up'[u].cut = up[u].cut
  BY <1>1, <1>2, <1>3, MovedWithKey
<1>6. KeyOK(u)' /\ FlyingOK(u)'
  BY <1>1, <1>2, <1>5 DEF UploadOK, KeyOK, FlyingOK, Working
<1>7. TidyOK(u)'
  BY <1>1, <1>4, <1>5 DEF UploadOK, TidyOK
<1> QED BY <1>1, <1>4, <1>5, <1>6, <1>7, BeforeRegistration DEF Typed, PageMoves

\* The direct upload is refused, or cut off with or without being applied.
LEMMA DirectFailsKeeps == ASSUME Inv, NEW u \in Uploads, DirectFails(u) PROVE Inv'
<1>1. /\ Typed /\ UploadOK(u) /\ reg[u] = "none" /\ up[u].pc = "direct"
      /\ UNCHANGED <<flying, assets, platforms, reg>>
  BY NotSent DEF Inv, DirectFails, At
<1>2. <<u, "direct">> \in KeysOf(u) /\ "report" \in PCs /\ up[u].file \in Contents
  BY <1>1 DEF KeysOf, PCs, Typed, Page, Contents
<1>3. up[u].key = <<u, "grant">> /\ up[u].key \in KeysOf(u)
  BY <1>1 DEF UploadOK, KeyOK, KeysOf
<1>4. CASE UNCHANGED obj /\ Goto(u, "report")
  <2>1. PageMoves(u) /\ up'[u].pc = "report" /\ up'[u].key = up[u].key /\ up'[u].cut = up[u].cut
    BY <1>1, <1>2, <1>4, Moved
  <2>2. KeyOK(u)' /\ FlyingOK(u)' /\ TidyOK(u)'
    BY <1>1, <1>3, <1>4, <2>1 DEF UploadOK, KeyOK, FlyingOK, TidyOK, Working
  <2> QED BY <1>1, <1>4, <2>1, <2>2, BeforeRegistration DEF Typed, PageMoves
<1>5. CASE /\ obj' = [obj EXCEPT ![<<u, "direct">>] = up[u].file]
           /\ GotoByCut(u, "report")
  <2>1. PageMoves(u) /\ up'[u].pc = "report" /\ up'[u].key = up[u].key /\ up'[u].cut
    BY <1>1, <1>2, <1>5, MovedByCut
  <2>2. /\ obj' \in [Keys -> Contents]
        /\ \A v \in Uploads \ {u} : \A l \in KeysOf(v) : obj'[l] = obj[l]
    BY <1>1, <1>2, <1>5, Stores
  <2>3. KeyOK(u)' /\ FlyingOK(u)' /\ TidyOK(u)'
    BY <1>1, <1>3, <2>1 DEF UploadOK, KeyOK, FlyingOK, TidyOK, Working
  <2> QED BY <1>1, <2>1, <2>2, <2>3, BeforeRegistration DEF Typed, PageMoves
<1> QED BY <1>4, <1>5 DEF DirectFails, GotoByCut

\* The object is verified and the registration sent.
LEMMA VerifyKeeps == ASSUME Inv, NEW u \in Uploads, Verify(u) PROVE Inv'
<1>1. /\ Typed /\ UploadOK(u) /\ up[u].pc = "verify" /\ SendRegistration(u)
      /\ UNCHANGED <<obj, flying, assets, platforms>>
  BY DEF Inv, Verify, At
<1>2. \A k \in KeysOf(u) : obj'[k] # NoFile => up[u].key = k \/ up[u].cut
  BY <1>1 DEF UploadOK, TidyOK
<1> QED BY <1>1, <1>2, SendKeeps DEF Typed

\* The object is not what the page hashed, or the call is refused.
LEMMA VerifyFailsKeeps == ASSUME Inv, NEW u \in Uploads, VerifyFails(u) PROVE Inv'
<1>1. /\ Typed /\ UploadOK(u) /\ reg[u] = "none" /\ up[u].pc = "verify"
      /\ UNCHANGED <<obj, flying, assets, platforms, reg>>
      /\ Goto(u, "report") /\ "report" \in PCs
  BY NotSent DEF Inv, VerifyFails, At, PCs
<1>2. PageMoves(u) /\ up'[u].pc = "report" /\ up'[u].key = up[u].key /\ up'[u].cut = up[u].cut
  BY <1>1, Moved
<1>3. KeyOK(u)' /\ FlyingOK(u)' /\ TidyOK(u)'
  BY <1>1, <1>2 DEF UploadOK, KeyOK, FlyingOK, TidyOK, Working
<1> QED BY <1>1, <1>2, <1>3, BeforeRegistration DEF Typed, PageMoves

-----------------------------------------------------------------------------
(***************************************************************************)
(* Steps that a registration may be under way beside.                      *)
(***************************************************************************)
\* A PUT that was cut off is applied after all: not to the object registered.
LEMMA PutLandsKeeps == ASSUME Inv, NEW u \in Uploads, PutLands(u) PROVE Inv'
<1>1. /\ Typed /\ UploadOK(u) /\ u \in flying /\ flying' = flying \ {u}
      /\ UNCHANGED <<assets, platforms, up, reg>>
  BY DEF Inv, PutLands
<1>2. PICK c \in Stored(up[u].file) : obj' = [obj EXCEPT ![<<u, "grant">>] = c]
  BY DEF PutLands
<1>3. c \in Contents /\ <<u, "grant">> \in KeysOf(u)
  BY <1>1 DEF Stored, Contents, Typed, Page, KeysOf
<1>4. /\ obj' \in [Keys -> Contents]
      /\ \A l \in KeysOf(u) \ {<<u, "grant">>} : obj'[l] = obj[l]
      /\ \A v \in Uploads \ {u} : \A l \in KeysOf(v) : obj'[l] = obj[l]
  BY <1>1, <1>2, <1>3, Stores
<1>5. Typed' /\ Own(u)
  BY <1>1, <1>4 DEF Typed, Own
<1>6. /\ up[u].cut \/ up[u].pc = "closed"
      /\ up[u].key \in KeysOf(u) /\ (up[u].key = <<u, "grant">> => reg[u] = "none")
  BY <1>1 DEF UploadOK, FlyingOK
<1>7. KeyOK(u)' /\ FlyingOK(u)' /\ TidyOK(u)'
  BY <1>1, <1>6 DEF UploadOK, KeyOK, FlyingOK, TidyOK
<1>8. LateOK(u)' /\ PlatformOK(u)' /\ SignOK(u)'
  BY <1>1 DEF UploadOK, LateOK, PlatformOK, SignOK, Catalogued
<1>9. ServedOK(u)' /\ RowOK(u)'
  BY <1>1, <1>4, <1>6 DEF UploadOK, ServedOK, RowOK
<1> QED BY <1>5, <1>7, <1>8, <1>9, OthersKeep DEF UploadOK

\* It never arrived.
LEMMA PutIsLostKeeps == ASSUME Inv, NEW u \in Uploads, PutIsLost(u) PROVE Inv'
<1>1. /\ Typed /\ UploadOK(u) /\ flying' = flying \ {u}
      /\ UNCHANGED <<obj, assets, platforms, up, reg>>
  BY DEF Inv, PutIsLost
<1>2. Typed' /\ Own(u)
  BY <1>1 DEF Typed, Own
<1>3. KeyOK(u)' /\ FlyingOK(u)' /\ TidyOK(u)'
  BY <1>1 DEF UploadOK, KeyOK, FlyingOK, TidyOK
<1>4. LateOK(u)' /\ PlatformOK(u)' /\ SignOK(u)' /\ ServedOK(u)' /\ RowOK(u)'
  BY <1>1 DEF UploadOK, LateOK, PlatformOK, SignOK, ServedOK, RowOK, Catalogued
<1> QED BY <1>2, <1>3, <1>4, OthersKeep DEF UploadOK

\* What the catch of a page that has a key goes to.
LEMMA CaughtWithKey ==
  ASSUME NEW u \in Uploads, up[u].key \in KeysOf(u)
  PROVE  Caught(u) \in {"report", "failed"} /\ Caught(u) \in PCs
BY DEF Caught, PCs, Final

\* The page does not learn the outcome of its registration.
LEMMA ReplyLostKeeps == ASSUME Inv, NEW u \in Uploads, ReplyLost(u) PROVE Inv'
<1>1. /\ Typed /\ UploadOK(u) /\ up[u].file \in LateFiles /\ up[u].pc = "register"
      /\ Goto(u, Caught(u)) /\ UNCHANGED <<obj, flying, assets, platforms, reg>>
  BY DEF Inv, ReplyLost, At
<1>2. up[u].key \in KeysOf(u)
  BY <1>1 DEF UploadOK, KeyOK, Working
<1>3. PICK p \in {"report", "failed"} : p = Caught(u) /\ p \in PCs
  BY <1>2, CaughtWithKey
<1>4. PageMoves(u) /\ up'[u].pc = p /\ up'[u].key = up[u].key /\ up'[u].cut = up[u].cut
  BY <1>1, <1>3, Moved
<1>5. Typed' /\ Own(u)
  BY <1>1, <1>4 DEF Typed, Own, PageMoves
<1>6. KeyOK(u)' /\ FlyingOK(u)' /\ TidyOK(u)'
  BY <1>1, <1>2, <1>4 DEF UploadOK, KeyOK, FlyingOK, TidyOK, Working, Final
<1>7. LateOK(u)' /\ PlatformOK(u)' /\ SignOK(u)' /\ ServedOK(u)'
  BY <1>1, <1>4 DEF UploadOK, LateOK, PlatformOK, SignOK, ServedOK, Catalogued, PageMoves
<1>8. RowOK(u)'
  BY <1>1 DEF UploadOK, RowOK
<1> QED BY <1>5, <1>6, <1>7, <1>8, OthersKeep DEF UploadOK

\* The failure report deletes the object, or fails.
LEMMA ReportKeeps == ASSUME Inv, NEW u \in Uploads, Report(u) PROVE Inv'
<1>1. /\ Typed /\ UploadOK(u) /\ up[u].pc = "report"
      /\ UNCHANGED <<flying, assets, platforms, reg>>
  BY DEF Inv, Report, At
<1>2. up[u].key \in KeysOf(u) /\ NoFile \in Contents
  BY <1>1 DEF UploadOK, KeyOK, Contents
<1>3. PICK p \in {"cleaned", "failed"} :
        /\ Goto(u, p)
        /\ \/ p = "cleaned" /\ Delete(up[u].key)
           \/ p = "failed" /\ UNCHANGED obj
  BY DEF Report
<1>4. p \in PCs
  BY DEF PCs, Final
<1>5. PageMoves(u) /\ up'[u].pc = p /\ up'[u].key = up[u].key /\ up'[u].cut = up[u].cut
  BY <1>1, <1>3, <1>4, Moved
<1>6. /\ obj' \in [Keys -> Contents]
      /\ \A v \in Uploads \ {u} : \A l \in KeysOf(v) : obj'[l] = obj[l]
      /\ \A l \in KeysOf(u) \ {up[u].key} : obj'[l] = obj[l]
      /\ p = "cleaned" => obj'[up[u].key] = NoFile
  <2>1. CASE Delete(up[u].key)
    <3>1. PICK k \in KeysOf(u) : k = up[u].key
      BY <1>2
    <3>2. obj' = [obj EXCEPT ![k] = NoFile]
      BY <2>1, <3>1 DEF Delete
    <3>3. /\ obj' \in [Keys -> Contents] /\ obj'[k] = NoFile
          /\ \A l \in KeysOf(u) \ {k} : obj'[l] = obj[l]
          /\ \A v \in Uploads \ {u} : \A l \in KeysOf(v) : obj'[l] = obj[l]
      BY <1>1, <1>2, <3>2, Stores
    <3> QED BY <3>1, <3>3
  <2>2. CASE p = "failed" /\ UNCHANGED obj
    BY <1>1, <2>2 DEF Typed
  <2> QED BY <1>3, <2>1, <2>2
<1>7. Typed' /\ Own(u)
  BY <1>1, <1>5, <1>6 DEF Typed, Own, PageMoves
<1>8. KeyOK(u)' /\ FlyingOK(u)'
  BY <1>1, <1>2, <1>5 DEF UploadOK, KeyOK, FlyingOK, Working, Final
<1>9. TidyOK(u)'
  BY <1>1, <1>5, <1>6 DEF UploadOK, TidyOK
<1>10. LateOK(u)' /\ PlatformOK(u)' /\ SignOK(u)' /\ ServedOK(u)'
  BY <1>1, <1>5 DEF UploadOK, LateOK, PlatformOK, SignOK, ServedOK, Catalogued, PageMoves
<1>11. RowOK(u)'
  BY <1>1 DEF UploadOK, RowOK
<1> QED BY <1>7, <1>8, <1>9, <1>10, <1>11, OthersKeep DEF UploadOK

\* The tab is closed.
LEMMA CloseKeeps == ASSUME Inv, NEW u \in Uploads, Close(u) PROVE Inv'
<1>1. /\ Typed /\ UploadOK(u) /\ up[u].pc \in Working \cup {"report"}
      /\ Goto(u, "closed") /\ "closed" \in PCs
      /\ UNCHANGED <<assets, platforms, reg>>
      /\ flying' = IF up[u].pc = "put" THEN flying \cup {u} ELSE flying
  BY DEF Inv, Close, At, Goto, PCs, Final
<1>2. PageMoves(u) /\ up'[u].pc = "closed" /\ up'[u].key = up[u].key /\ up'[u].cut = up[u].cut
  BY <1>1, Moved
<1>3. /\ obj' \in [Keys -> Contents]
      /\ \A v \in Uploads \ {u} : \A l \in KeysOf(v) : obj'[l] = obj[l]
      /\ UNCHANGED obj \/ up[u].pc \in {"direct", "report"}
  <2>1. CASE up[u].pc = "direct" /\ obj' = [obj EXCEPT ![<<u, "direct">>] = up[u].file]
    <3>1. <<u, "direct">> \in KeysOf(u) /\ up[u].file \in Contents
      BY <1>1 DEF KeysOf, Contents, Typed, Page
    <3> QED BY <1>1, <2>1, <3>1, Stores
  <2>2. CASE up[u].pc = "report" /\ obj' = [obj EXCEPT ![up[u].key] = NoFile]
    <3>1. up[u].key \in KeysOf(u) /\ NoFile \in Contents
      BY <1>1, <2>2 DEF Contents, UploadOK, KeyOK
    <3> QED BY <1>1, <2>2, <3>1, Stores
  <2>3. CASE UNCHANGED obj
    BY <1>1, <2>3 DEF Typed
  <2> QED BY <2>1, <2>2, <2>3 DEF Close, At, Delete
<1>4. Typed' /\ Own(u)
  BY <1>1, <1>2, <1>3 DEF Typed, Own, PageMoves
<1>5. up[u].pc = "put" => up[u].key = <<u, "grant">> /\ up[u].key \in KeysOf(u) /\ reg[u] = "none"
  BY <1>1, NotSent DEF UploadOK, KeyOK, KeysOf, Final
<1>6. KeyOK(u)' /\ FlyingOK(u)' /\ TidyOK(u)'
  BY <1>1, <1>2, <1>5 DEF UploadOK, KeyOK, FlyingOK, TidyOK, Working, Final
<1>7. LateOK(u)' /\ PlatformOK(u)' /\ SignOK(u)'
  BY <1>1, <1>2 DEF UploadOK, LateOK, PlatformOK, SignOK, Catalogued, PageMoves
<1>8. ServedOK(u)' /\ RowOK(u)'
  <2>1. CASE UNCHANGED obj
    BY <1>1, <1>2, <2>1 DEF UploadOK, ServedOK, RowOK, PageMoves
  <2>2. CASE up[u].pc = "direct"
    <3>1. reg[u] = "none"
      BY <2>2, NotSent
    <3> QED BY <1>1, <1>2, <3>1 DEF UploadOK, ServedOK, RowOK, PageMoves
  <2>3. CASE up[u].pc = "report"
    BY <1>1, <1>2, <2>3 DEF UploadOK, ServedOK, RowOK, PageMoves
  <2> QED BY <1>3, <2>1, <2>2, <2>3
<1> QED BY <1>4, <1>6, <1>7, <1>8, OthersKeep DEF UploadOK

-----------------------------------------------------------------------------
(***************************************************************************)
(* Steps of the registration handler.                                      *)
(***************************************************************************)
Serving == {"verify", "describe", "find", "platform", "newPlatform", "create"}

\* Where the handler goes.
LEMMA RegMoved ==
  ASSUME Typed, NEW u \in Uploads, NEW p \in RegPCs, RegGoto(u, p)
  PROVE  /\ reg' \in [Uploads -> RegPCs] /\ reg'[u] = p
         /\ \A v \in Uploads \ {u} : reg'[v] = reg[v]
BY DEF Typed, RegGoto

\* It answers with an error before it wrote a row, or late.
LEMMA RegFailKeeps ==
  ASSUME Inv, NEW u \in Uploads, RegFail(u), UNCHANGED <<obj, flying, platforms>>,
         reg[u] \in Serving \/ (reg[u] = "sign" /\ up[u].file \in LateFiles),
         assets \subseteq assets', assets' \subseteq [key : Keys, sum : Files, plat : platforms],
         \A a \in assets' \ assets : a.key \in KeysOf(u) /\ a.sum \in LateFiles
  PROVE  Inv'
<1>1. Typed /\ UploadOK(u) /\ reg[u] # "none" /\ "done" \in RegPCs
  BY DEF Inv, Serving, RegPCs
<1>2. /\ reg' \in [Uploads -> RegPCs] /\ reg'[u] = "done"
      /\ \A v \in Uploads \ {u} : reg'[v] = reg[v]
  BY <1>1, RegMoved DEF RegFail
<1>3. up[u].key \in KeysOf(u)
  BY <1>1 DEF UploadOK, KeyOK
<1>4. PICK p \in {"report", "failed"} : p = Caught(u) /\ p \in PCs
  BY <1>3, CaughtWithKey
<1>5. /\ PageMoves(u) /\ up'[u].key = up[u].key /\ up'[u].cut = up[u].cut
      /\ up'[u].pc = IF up[u].pc = "register" THEN p ELSE up[u].pc
  <2>1. CASE up[u].pc = "register"
    <3>1. Goto(u, p)
      BY <1>4, <2>1 DEF RegFail, At
    <3> QED BY <1>1, <1>4, <2>1, <3>1, Moved
  <2>2. CASE up[u].pc # "register"
    BY <1>1, <2>2 DEF RegFail, At, PageMoves, Typed
  <2> QED BY <2>1, <2>2
<1>6. Typed' /\ Own(u)
  BY <1>1, <1>2, <1>5 DEF Typed, Own, PageMoves
<1>7. KeyOK(u)' /\ FlyingOK(u)' /\ TidyOK(u)'
  BY <1>1, <1>3, <1>5 DEF UploadOK, KeyOK, FlyingOK, TidyOK, Working, Final
<1>8. LateOK(u)' /\ PlatformOK(u)' /\ SignOK(u)' /\ ServedOK(u)'
  BY <1>1, <1>2, <1>5 DEF UploadOK, LateOK, PlatformOK, SignOK, ServedOK, Catalogued, PageMoves
<1>9. RowOK(u)'
  BY <1>1 DEF UploadOK, RowOK, Serving
<1> QED BY <1>6, <1>7, <1>8, <1>9, OthersKeep DEF UploadOK

\* It goes on, to a state whose conditions hold.
LEMMA RegGoesOn ==
  ASSUME Inv, NEW u \in Uploads, NEW p \in RegPCs \ {"none", "done"}, RegGoto(u, p),
         UNCHANGED <<obj, flying, assets, up>>, reg[u] \in Serving,
         platforms \subseteq platforms', platforms' \subseteq Platforms,
         up[u].late => p \notin {"platform", "newPlatform", "create"},
         p = "create" => up[u].plat \in platforms',
         p = "sign" => Catalogued(up[u].file),
         p # "verify" => reg[u] # "verify" \/ obj[up[u].key] = up[u].file
  PROVE  Inv'
<1>1. Typed /\ UploadOK(u) /\ reg[u] # "none"
  BY DEF Inv, Serving
<1>2. /\ reg' \in [Uploads -> RegPCs] /\ reg'[u] = p
      /\ \A v \in Uploads \ {u} : reg'[v] = reg[v]
  BY <1>1, RegMoved
<1>3. Typed' /\ Own(u)
  <2>1. assets' \subseteq [key : Keys, sum : Files, plat : platforms']
    BY <1>1 DEF Typed
  <2> QED BY <1>1, <1>2, <2>1 DEF Typed, Own
<1>4. KeyOK(u)' /\ FlyingOK(u)' /\ TidyOK(u)'
  BY <1>1, <1>2 DEF UploadOK, KeyOK, FlyingOK, TidyOK
<1>5. LateOK(u)' /\ PlatformOK(u)' /\ SignOK(u)'
  BY <1>1, <1>2 DEF UploadOK, LateOK, PlatformOK, SignOK, Catalogued
<1>6. ServedOK(u)'
  BY <1>1, <1>2 DEF UploadOK, ServedOK, Serving
<1>7. RowOK(u)'
  BY <1>1 DEF UploadOK, RowOK, Serving
<1> QED BY <1>3, <1>4, <1>5, <1>6, <1>7, OthersKeep DEF UploadOK

\* An error that leaves everything stored as it is.
LEMMA RegPlainFail ==
  ASSUME Inv, NEW u \in Uploads, RegFail(u), UNCHANGED <<obj, flying, assets, platforms>>,
         reg[u] \in Serving
  PROVE  Inv'
<1>1. /\ assets \subseteq assets' /\ assets' \subseteq [key : Keys, sum : Files, plat : platforms]
      /\ \A a \in assets' \ assets : a.key \in KeysOf(u) /\ a.sum \in LateFiles
  BY DEF Inv, Typed
<1> QED BY <1>1, RegFailKeeps

\* The object under the key is compared with the checksum.
LEMMA RegVerifyKeeps == ASSUME Inv, NEW u \in Uploads, RegVerify(u) PROVE Inv'
<1>1. /\ reg[u] \in Serving /\ reg[u] = "verify" /\ UNCHANGED <<obj, flying, assets, platforms>>
      /\ "describe" \in RegPCs \ {"none", "done"}
  BY DEF RegVerify, RegAt, Serving, RegPCs
<1>2. CASE Verified(u) /\ RegGoto(u, "describe") /\ UNCHANGED up
  BY <1>1, <1>2, RegGoesOn DEF Verified, Inv, Typed
<1>3. CASE RegFail(u)
  BY <1>1, <1>3, RegPlainFail
<1> QED BY <1>2, <1>3 DEF RegVerify, RegMayFail

\* Size and metadata are read.
LEMMA RegDescribeKeeps == ASSUME Inv, NEW u \in Uploads, RegDescribe(u) PROVE Inv'
<1>1. /\ reg[u] \in Serving /\ reg[u] = "describe" /\ UNCHANGED <<obj, flying, assets, platforms>>
      /\ "find" \in RegPCs \ {"none", "done"}
  BY DEF RegDescribe, RegAt, Serving, RegPCs
<1>2. CASE RegGoto(u, "find") /\ UNCHANGED up
  BY <1>1, <1>2, RegGoesOn DEF Inv, Typed
<1>3. CASE RegFail(u)
  BY <1>1, <1>3, RegPlainFail
<1> QED BY <1>2, <1>3 DEF RegDescribe, RegMayFail

\* An asset with this checksum is looked up.
LEMMA RegFindKeeps == ASSUME Inv, NEW u \in Uploads, RegFind(u) PROVE Inv'
<1>1. /\ reg[u] \in Serving /\ reg[u] = "find" /\ UNCHANGED <<obj, flying, assets, platforms>>
      /\ "sign" \in RegPCs \ {"none", "done"} /\ "platform" \in RegPCs \ {"none", "done"}
      /\ platforms \subseteq Platforms
  BY DEF RegFind, RegAt, Serving, RegPCs, Inv, Typed
<1>2. CASE RegGoto(u, IF Known(up[u].file) THEN "sign" ELSE "platform") /\ UNCHANGED up
  <2>1. up[u].late => Catalogued(up[u].file)
    BY DEF Inv, UploadOK, LateOK
  <2>2. CASE Known(up[u].file)
    <3>1. RegGoto(u, "sign")
      BY <1>2, <2>2
    <3> QED BY <1>1, <1>2, <2>2, <3>1, RegGoesOn DEF Known
  <2>3. CASE ~Known(up[u].file)
    <3>1. RegGoto(u, "platform")
      BY <1>2, <2>3
    <3> QED BY <1>1, <1>2, <2>1, <2>3, <3>1, RegGoesOn DEF Known
  <2> QED BY <2>2, <2>3
<1>3. CASE RegFail(u)
  BY <1>1, <1>3, RegPlainFail
<1> QED BY <1>2, <1>3 DEF RegFind, RegMayFail

\* The platform is looked up.
LEMMA RegPlatformKeeps == ASSUME Inv, NEW u \in Uploads, RegPlatform(u) PROVE Inv'
<1>1. /\ reg[u] \in Serving /\ reg[u] = "platform" /\ UNCHANGED <<obj, flying, assets, platforms>>
      /\ "create" \in RegPCs \ {"none", "done"} /\ "newPlatform" \in RegPCs \ {"none", "done"}
      /\ platforms \subseteq Platforms /\ ~up[u].late
  BY DEF RegPlatform, RegAt, Serving, RegPCs, Inv, Typed, UploadOK, LateOK
<1>2. CASE RegGoto(u, IF up[u].plat \in platforms THEN "create" ELSE "newPlatform") /\ UNCHANGED up
  <2>1. CASE up[u].plat \in platforms
    <3>1. RegGoto(u, "create")
      BY <1>2, <2>1
    <3> QED BY <1>1, <1>2, <2>1, <3>1, RegGoesOn
  <2>2. CASE up[u].plat \notin platforms
    <3>1. RegGoto(u, "newPlatform")
      BY <1>2, <2>2
    <3> QED BY <1>1, <1>2, <3>1, RegGoesOn
  <2> QED BY <2>1, <2>2
<1>3. CASE RegFail(u)
  BY <1>1, <1>3, RegPlainFail
<1> QED BY <1>2, <1>3 DEF RegPlatform, RegMayFail

\* It is created, unless another registration was faster.
LEMMA RegNewPlatformKeeps == ASSUME Inv, NEW u \in Uploads, RegNewPlatform(u) PROVE Inv'
<1>1. /\ reg[u] \in Serving /\ reg[u] = "newPlatform" /\ UNCHANGED <<obj, flying, assets>>
      /\ "create" \in RegPCs \ {"none", "done"} /\ ~up[u].late /\ up[u].plat \in Platforms
  BY DEF RegNewPlatform, RegAt, Serving, RegPCs, Inv, Typed, Page, UploadOK, LateOK
<1>2. CASE /\ platforms' = platforms \cup {up[u].plat}
           /\ RegGoto(u, "create") /\ UNCHANGED up
  <2>1. platforms \subseteq platforms' /\ platforms' \subseteq Platforms /\ up[u].plat \in platforms'
    BY <1>1, <1>2 DEF Inv, Typed
  <2> QED BY <1>1, <1>2, <2>1, RegGoesOn
<1>3. CASE RegFail(u) /\ UNCHANGED platforms
  BY <1>1, <1>3, RegPlainFail
<1> QED BY <1>2, <1>3 DEF RegNewPlatform

\* The row is written, unless one with this checksum is there; the error of a file
\* that fails late may follow.
LEMMA RegCreateKeeps == ASSUME Inv, NEW u \in Uploads, RegCreate(u) PROVE Inv'
<1>1. /\ Typed /\ UploadOK(u) /\ reg[u] \in Serving /\ reg[u] = "create"
      /\ UNCHANGED <<obj, flying, platforms>> /\ "sign" \in RegPCs
  BY DEF Inv, RegCreate, RegAt, Serving, RegPCs
<1>2. up[u].key \in KeysOf(u) /\ up[u].plat \in platforms /\ up[u].file \in Files
  BY <1>1 DEF UploadOK, KeyOK, PlatformOK, Typed, Page
<1> DEFINE row == [key |-> up[u].key, sum |-> up[u].file, plat |-> up[u].plat]
<1>3. /\ row \in [key : Keys, sum : Files, plat : platforms]
      /\ row.key = up[u].key /\ row.sum = up[u].file
  BY <1>2, KeyFacts
<1> HIDE DEF row
<1>4. CASE assets' = assets \cup {row} /\ RegGoto(u, "sign") /\ UNCHANGED up
  <2>1. /\ reg' \in [Uploads -> RegPCs] /\ reg'[u] = "sign"
        /\ \A v \in Uploads \ {u} : reg'[v] = reg[v]
    BY <1>1, <1>4, RegMoved
  <2>2. Typed'
    BY <1>1, <1>3, <1>4, <2>1 DEF Typed
  <2>3. Own(u)
    BY <1>1, <1>2, <1>3, <1>4, <2>1 DEF Own
  <2>4. KeyOK(u)' /\ FlyingOK(u)' /\ TidyOK(u)'
    BY <1>1, <1>4, <2>1 DEF UploadOK, KeyOK, FlyingOK, TidyOK
  <2>5. LateOK(u)' /\ PlatformOK(u)' /\ SignOK(u)'
    BY <1>1, <1>3, <1>4, <2>1 DEF UploadOK, LateOK, PlatformOK, SignOK, Catalogued
  <2>6. ServedOK(u)'
    BY <1>1, <1>4, <2>1 DEF UploadOK, ServedOK
  <2>7. RowOK(u)'
    <3>1. \A a \in assets : a.key \in KeysOf(u) => a.sum \in LateFiles
      BY <1>1 DEF UploadOK, RowOK
    <3>2. up[u].file \notin LateFiles =>
            obj[up[u].key] = up[u].file /\ up[u].pc \in {"register", "closed"}
      BY <1>1 DEF UploadOK, ServedOK
    <3> QED BY <1>1, <1>2, <1>3, <1>4, <2>1, <3>1, <3>2 DEF RowOK
  <2> QED BY <2>2, <2>3, <2>4, <2>5, <2>6, <2>7, OthersKeep DEF UploadOK
<1>5. CASE assets' = assets \cup {row} /\ up[u].file \in LateFiles /\ RegFail(u)
  <2>1. /\ assets \subseteq assets' /\ assets' \subseteq [key : Keys, sum : Files, plat : platforms]
        /\ \A a \in assets' \ assets : a.key \in KeysOf(u) /\ a.sum \in LateFiles
    BY <1>1, <1>2, <1>3, <1>5 DEF Typed
  <2> QED BY <1>1, <1>5, <2>1, RegFailKeeps
<1>6. CASE RegFail(u) /\ UNCHANGED assets
  BY <1>1, <1>6, RegPlainFail
<1> QED BY <1>4, <1>5, <1>6 DEF RegCreate, row

\* The answer, or the error of a URL that cannot be signed.
LEMMA RegSignKeeps == ASSUME Inv, NEW u \in Uploads, RegSign(u) PROVE Inv'
<1>1. /\ Typed /\ UploadOK(u) /\ reg[u] = "sign" /\ "done" \in RegPCs /\ "complete" \in PCs
      /\ UNCHANGED <<obj, flying, assets, platforms>>
  BY DEF Inv, RegSign, RegAt, RegPCs, PCs, Final
<1>2. CASE RegDone(u)
  <2>1. /\ reg' \in [Uploads -> RegPCs] /\ reg'[u] = "done"
        /\ \A v \in Uploads \ {u} : reg'[v] = reg[v]
    BY <1>1, <1>2, RegMoved DEF RegDone
  <2>2. /\ PageMoves(u) /\ up'[u].key = up[u].key /\ up'[u].cut = up[u].cut
        /\ up'[u].pc = IF up[u].pc = "register" THEN "complete" ELSE up[u].pc
    <3>1. CASE up[u].pc = "register"
      BY <1>1, <1>2, <3>1, Moved DEF RegDone, At
    <3>2. CASE up[u].pc # "register"
      BY <1>1, <1>2, <3>2 DEF RegDone, At, PageMoves, Typed
    <3> QED BY <3>1, <3>2
  <2>3. Typed' /\ Own(u)
    BY <1>1, <2>1, <2>2 DEF Typed, Own, PageMoves
  <2>4. up[u].key \in KeysOf(u)
    BY <1>1 DEF UploadOK, KeyOK
  <2>5. KeyOK(u)' /\ FlyingOK(u)' /\ TidyOK(u)'
    BY <1>1, <2>1, <2>2, <2>4 DEF UploadOK, KeyOK, FlyingOK, TidyOK, Working, Final
  <2>6. LateOK(u)' /\ PlatformOK(u)' /\ SignOK(u)' /\ ServedOK(u)' /\ RowOK(u)'
    BY <1>1, <2>1, <2>2
    DEF UploadOK, LateOK, PlatformOK, SignOK, ServedOK, RowOK, Catalogued, PageMoves
  <2> QED BY <2>3, <2>5, <2>6, OthersKeep DEF UploadOK
<1>3. CASE SignFails(u)
  <2>1. /\ assets \subseteq assets' /\ assets' \subseteq [key : Keys, sum : Files, plat : platforms]
        /\ \A a \in assets' \ assets : a.key \in KeysOf(u) /\ a.sum \in LateFiles
    BY <1>1 DEF Typed
  <2> QED BY <1>1, <1>3, <2>1, RegFailKeeps DEF SignFails
<1> QED BY <1>2, <1>3 DEF RegSign

\* Every step keeps the invariant.
LEMMA InvNext == Inv /\ [Next]_vars => Inv'
<1> SUFFICES ASSUME Inv, [Next]_vars PROVE Inv'
  OBVIOUS
<1>1. ASSUME NEW u \in Uploads, PageStep(u) PROVE Inv'
  BY <1>1, GrantKeeps, PutKeeps, PutRefusedKeeps, PutCutOffKeeps, DirectKeeps, DirectFailsKeeps,
     VerifyKeeps, VerifyFailsKeeps, ReportKeeps DEF PageStep
<1>2. ASSUME NEW u \in Uploads, ServerStep(u) PROVE Inv'
  BY <1>2, RegVerifyKeeps, RegDescribeKeeps, RegFindKeeps, RegPlatformKeeps, RegNewPlatformKeeps,
     RegCreateKeeps, RegSignKeeps DEF ServerStep
<1>3. CASE UNCHANGED vars
  <2>1. UNCHANGED <<obj, flying, assets, platforms, up, reg>>
    BY <1>3 DEF vars
  <2>2. \A u \in Uploads : UploadOK(u)'
    BY <2>1 DEF Inv, UploadOK, KeyOK, FlyingOK, TidyOK, LateOK, PlatformOK, SignOK, ServedOK, RowOK,
                Catalogued
  <2> QED BY <2>1, <2>2 DEF Inv, Typed
<1> QED BY <1>1, <1>2, <1>3, SubmitKeeps, PutLandsKeeps, PutIsLostKeeps, ReplyLostKeeps, CloseKeeps
        DEF Next

\* So it holds throughout.
LEMMA InvAlways == Spec => []Inv
BY InvInit, InvNext, PTL DEF Spec

-----------------------------------------------------------------------------
(***************************************************************************)
(* Pages, handlers and stores keep their types, and a page that is past    *)
(* its grant has a key of its own.                                         *)
(***************************************************************************)
THEOREM TypeCorrect == Spec => []TypeOK
<1>1. Inv => TypeOK
  BY DEF Inv, Typed, TypeOK, Contents, UploadOK, KeyOK, KeysOf
<1> QED BY <1>1, InvAlways, PTL

(***************************************************************************)
(* A page that reported its failure leaves no object behind under either   *)
(* of its keys, unless one of its calls was cut off.                       *)
(***************************************************************************)
THEOREM CleanupIsComplete == Spec => []CleanedLeavesNothing
<1>1. Inv => CleanedLeavesNothing
  BY DEF Inv, UploadOK, TidyOK, CleanedLeavesNothing, At, KeysOf
<1> QED BY <1>1, InvAlways, PTL

(***************************************************************************)
(* A file that was in the library when its registration began is not       *)
(* registered again.                                                       *)
(***************************************************************************)
THEOREM DuplicatesAreReused == Spec => []DuplicateIsReused
<1>1. Inv => DuplicateIsReused
  BY DEF Inv, UploadOK, LateOK, DuplicateIsReused
<1> QED BY <1>1, InvAlways, PTL

-----------------------------------------------------------------------------
(***************************************************************************)
(* RomUploads implements Catalogue: under the invariant a file that does   *)
(* not fail late can be played as soon as it has a row, so a file is       *)
(* published by the step that writes its row, and it is reported by the    *)
(* answer of a handler that has found or written that row.                 *)
(***************************************************************************)
\* Nobody is told that an upload is complete, and nobody who was is told otherwise.
PagesQuiet ==
  \A v \in Uploads : /\ up'[v].file = up[v].file
                     /\ up'[v].pc = "complete" <=> up[v].pc = "complete"

ToldOf(u) == IF At(u, "complete") /\ up[u].file \notin LateFiles THEN up[u].file ELSE NoFile

Told == [u \in Uploads |-> ToldOf(u)]

\* A file can be played when it has a row.
LEMMA RowsArePlayable ==
  ASSUME Inv PROVE Playable \ LateFiles = {f \in Files \ LateFiles : Catalogued(f)}
<1>1. ASSUME NEW f \in Files \ LateFiles, NEW a \in assets, a.sum = f PROVE obj[a.key] = f
  <2>1. a.key \in Keys
    BY DEF Inv, Typed
  <2>2. PICK u \in Uploads : a.key \in KeysOf(u)
    BY <2>1, KeyFacts
  <2> QED BY <1>1, <2>2 DEF Inv, UploadOK, RowOK
<1> QED BY <1>1 DEF Playable, Catalogued

\* A page goes on to a state that is not "complete".
LEMMA QuietMove ==
  ASSUME Typed, NEW u \in Uploads, NEW p \in PCs \ {"complete"}, up[u].pc # "complete",
         Goto(u, p) \/ GotoByCut(u, p) \/ \E k \in Keys : GotoWithKey(u, p, k)
  PROVE  PagesQuiet
<1>1. CASE Goto(u, p)
  BY <1>1, Moved DEF PageMoves, PagesQuiet
<1>2. CASE GotoByCut(u, p)
  BY <1>2, MovedByCut DEF PageMoves, PagesQuiet
<1>3. ASSUME NEW k \in Keys, GotoWithKey(u, p, k) PROVE PagesQuiet
  BY <1>3, MovedWithKey DEF PageMoves, PagesQuiet
<1> QED BY <1>1, <1>2, <1>3

\* It sends its registration.
LEMMA QuietSend ==
  ASSUME Typed, NEW u \in Uploads, up[u].pc # "complete", SendRegistration(u)
  PROVE  PagesQuiet
BY Sent DEF PagesQuiet

\* The handler fails.
LEMMA QuietRegFail ==
  ASSUME Inv, NEW u \in Uploads, reg[u] # "none", RegFail(u)
  PROVE  PagesQuiet
<1>1. CASE up[u].pc = "register"
  <2>1. up[u].key \in KeysOf(u) /\ Typed
    BY DEF Inv, UploadOK, KeyOK
  <2>2. PICK p \in {"report", "failed"} : p = Caught(u) /\ p \in PCs
    BY <2>1, CaughtWithKey
  <2>3. Goto(u, p)
    BY <1>1, <2>2 DEF RegFail, At
  <2> QED BY <1>1, <2>1, <2>2, <2>3, QuietMove
<1>2. CASE up[u].pc # "register"
  BY <1>2 DEF RegFail, At, PagesQuiet
<1> QED BY <1>1, <1>2

\* No step of a page tells, and none writes a row.
LEMMA QuietPages ==
  ASSUME Inv, NEW u \in Uploads, Submit(u) \/ PageStep(u) \/ ReplyLost(u) \/ Close(u)
  PROVE  PagesQuiet /\ UNCHANGED assets
<1> USE DEF At
<1>1. Typed /\ UploadOK(u) /\ UNCHANGED assets
  BY DEF Inv, PageStep, Submit, Grant, Put, PutRefused, PutCutOff, Direct, DirectFails, Verify,
         VerifyFails, Report, ReplyLost, Close
<1>2. {"grant", "put", "verify", "report", "cleaned", "failed", "closed"} \subseteq PCs \ {"complete"}
  BY DEF PCs, Working, Final
<1>3. AfterBadPut(u) \subseteq PCs \ {"complete"}
  BY DEF AfterBadPut, PCs, Working, Final
<1>4. CASE Submit(u)
  BY <1>1, <1>2, <1>4, QuietMove DEF Submit
<1>5. CASE Grant(u)
  <2>1. Caught(u) \in PCs \ {"complete"} /\ up[u].pc = "grant" /\ <<u, "grant">> \in Keys
    BY <1>2, <1>5 DEF Grant, Caught, Keys
  <2>2. Goto(u, Caught(u)) \/ GotoWithKey(u, "put", <<u, "grant">>)
    BY <1>5 DEF Grant, Granted, GotoWithKey
  <2> QED BY <1>1, <1>2, <2>1, <2>2, QuietMove
<1>6. CASE Put(u)
  BY <1>1, <1>2, <1>6, QuietMove, QuietSend DEF Put
<1>7. CASE PutRefused(u)
  BY <1>1, <1>3, <1>7, QuietMove DEF PutRefused
<1>8. CASE PutCutOff(u)
  <2>1. \E p \in AfterBadPut(u) : GotoByCut(u, p)
    BY <1>8 DEF PutCutOff, GotoByCut
  <2> QED BY <1>1, <1>3, <1>8, <2>1, QuietMove DEF PutCutOff
<1>9. CASE Direct(u)
  <2>1. GotoWithKey(u, "verify", <<u, "direct">>) /\ <<u, "direct">> \in Keys
    BY <1>9 DEF Direct, GotoWithKey, Keys
  <2> QED BY <1>1, <1>2, <1>9, <2>1, QuietMove DEF Direct
<1>10. CASE DirectFails(u)
  <2>1. Goto(u, "report") \/ GotoByCut(u, "report")
    BY <1>10 DEF DirectFails, GotoByCut
  <2> QED BY <1>1, <1>2, <1>10, <2>1, QuietMove DEF DirectFails
<1>11. CASE Verify(u)
  BY <1>1, <1>11, QuietSend DEF Verify
<1>12. CASE VerifyFails(u) \/ Report(u)
  BY <1>1, <1>2, <1>12, QuietMove DEF VerifyFails, Report
<1>13. CASE ReplyLost(u)
  <2>1. Caught(u) \in PCs \ {"complete"}
    BY <1>2 DEF Caught
  <2> QED BY <1>1, <1>13, <2>1, QuietMove DEF ReplyLost
<1>14. CASE Close(u)
  <2>1. Goto(u, "closed") /\ up[u].pc # "complete"
    BY <1>14 DEF Close, Goto, Working
  <2> QED BY <1>1, <1>2, <2>1, QuietMove
<1> QED BY <1>1, <1>4, <1>5, <1>6, <1>7, <1>8, <1>9, <1>10, <1>11, <1>12, <1>13, <1>14 DEF PageStep

\* No step of the handler but its answer tells, and only RegCreate writes a row.
LEMMA QuietHandler ==
  ASSUME Inv, NEW u \in Uploads, ServerStep(u), ~(RegSign(u) /\ RegDone(u))
  PROVE  /\ PagesQuiet
         /\ \/ UNCHANGED assets
            \/ \E a : a.sum = up[u].file /\ assets' = assets \cup {a}
<1>1. reg[u] # "none"
  BY DEF ServerStep, RegVerify, RegDescribe, RegFind, RegPlatform, RegNewPlatform, RegCreate,
         RegSign, RegAt
<1>2. RegFail(u) \/ UNCHANGED up
  BY DEF ServerStep, RegVerify, RegDescribe, RegFind, RegPlatform, RegNewPlatform, RegCreate,
         RegSign, RegMayFail, SignFails
<1>3. PagesQuiet
  BY <1>1, <1>2, QuietRegFail DEF PagesQuiet
<1>4. \/ UNCHANGED assets
      \/ assets' = assets \cup {[key |-> up[u].key, sum |-> up[u].file, plat |-> up[u].plat]}
  BY DEF ServerStep, RegVerify, RegDescribe, RegFind, RegPlatform, RegNewPlatform, RegCreate,
         RegSign, RegMayFail, SignFails
<1> QED BY <1>3, <1>4

\* Every step publishes a file, reports one that was published, or does neither.
LEMMA LibraryStep ==
  ASSUME Inv, Inv', [Next]_vars
  PROVE  [Library!CatalogueNext]_<<Playable \ LateFiles, Told>>
<1>1. /\ Playable \ LateFiles = {f \in Files \ LateFiles : Catalogued(f)}
      /\ (Playable \ LateFiles)' = {f \in Files \ LateFiles : Catalogued(f)'}
  <2>1. Playable \ LateFiles = {f \in Files \ LateFiles : Catalogued(f)}
    BY RowsArePlayable
  <2>2. (Playable \ LateFiles = {f \in Files \ LateFiles : Catalogued(f)})'
    BY RowsArePlayable, PTL
  <2> QED BY <2>1, <2>2
<1>2. ASSUME PagesQuiet PROVE UNCHANGED Told
  BY <1>2 DEF PagesQuiet, Told, ToldOf, At
<1>3. ASSUME UNCHANGED assets PROVE UNCHANGED (Playable \ LateFiles)
  BY <1>1, <1>3 DEF Catalogued
<1>4. ASSUME NEW u \in Uploads, RegSign(u), RegDone(u)
      PROVE  [Library!CatalogueNext]_<<Playable \ LateFiles, Told>>
  <2>1. /\ Typed /\ Catalogued(up[u].file) /\ UNCHANGED assets /\ "complete" \in PCs
        /\ up[u].file \in Files
    BY <1>4 DEF Inv, UploadOK, SignOK, RegSign, RegAt, PCs, Final, Typed, Page
  <2>2. CASE up[u].pc = "register"
    <3>1. PageMoves(u) /\ up'[u].pc = "complete"
      BY <1>4, <2>1, <2>2, Moved DEF RegDone, At
    <3>2. CASE up[u].file \in LateFiles
      <4>1. UNCHANGED Told
        BY <3>1, <3>2 DEF PageMoves, Told, ToldOf, At
      <4> QED BY <1>3, <2>1, <4>1
    <3>3. CASE up[u].file \notin LateFiles
      <4>1. up[u].file \in Playable \ LateFiles
        BY <1>1, <2>1, <3>3
      <4>2. Told[u] = NoFile
        BY <2>2 DEF Told, ToldOf, At
      <4>3. Told' = [Told EXCEPT ![u] = up[u].file]
        BY <3>1, <3>3 DEF PageMoves, Told, ToldOf, At
      <4>4. PICK f \in Files \ LateFiles : f = up[u].file
        BY <2>1, <3>3
      <4>5. Library!ReportComplete(u, f)
        BY <1>3, <2>1, <4>1, <4>2, <4>3, <4>4 DEF Library!ReportComplete, Told, ToldOf
      <4> QED BY <4>5 DEF Library!CatalogueNext
    <3> QED BY <3>2, <3>3
  <2>3. CASE up[u].pc # "register"
    <3>1. UNCHANGED up
      BY <1>4, <2>3 DEF RegDone, At
    <3> QED BY <1>2, <1>3, <2>1, <3>1 DEF PagesQuiet
  <2> QED BY <2>2, <2>3
<1>5. ASSUME NEW u \in Uploads, ServerStep(u), ~(RegSign(u) /\ RegDone(u))
      PROVE  [Library!CatalogueNext]_<<Playable \ LateFiles, Told>>
  <2>1. /\ PagesQuiet
        /\ \/ UNCHANGED assets
           \/ \E a : a.sum = up[u].file /\ assets' = assets \cup {a}
    BY <1>5, QuietHandler
  <2>2. ASSUME NEW a, a.sum = up[u].file, assets' = assets \cup {a}
        PROVE  [Library!CatalogueNext]_<<Playable \ LateFiles, Told>>
    <3>1. \A f : Catalogued(f)' <=> Catalogued(f) \/ f = up[u].file
      BY <2>2 DEF Catalogued
    <3>2. CASE up[u].file \in LateFiles
      <4>1. UNCHANGED (Playable \ LateFiles)
        BY <1>1, <3>1, <3>2
      <4> QED BY <1>2, <2>1, <4>1
    <3>3. CASE up[u].file \notin LateFiles
      <4>1. up[u].file \in Files \ LateFiles
        BY <3>3 DEF Inv, Typed, Page
      <4>2. (Playable \ LateFiles)' = (Playable \ LateFiles) \cup {up[u].file}
        BY <1>1, <3>1, <4>1
      <4>3. Library!Publish(up[u].file)
        BY <1>2, <2>1, <4>2 DEF Library!Publish, Told, ToldOf
      <4> QED BY <4>1, <4>3 DEF Library!CatalogueNext
    <3> QED BY <3>2, <3>3
  <2> QED BY <1>2, <1>3, <2>1, <2>2
<1>6. ASSUME NEW u \in Uploads,
             Submit(u) \/ PageStep(u) \/ ReplyLost(u) \/ Close(u) \/ PutLands(u) \/ PutIsLost(u)
      PROVE  UNCHANGED <<Playable \ LateFiles, Told>>
  <2>1. CASE PutLands(u) \/ PutIsLost(u)
    BY <1>2, <1>3, <2>1 DEF PutLands, PutIsLost, PagesQuiet
  <2>2. CASE Submit(u) \/ PageStep(u) \/ ReplyLost(u) \/ Close(u)
    BY <1>2, <1>3, <2>2, QuietPages
  <2> QED BY <1>6, <2>1, <2>2
<1>7. CASE UNCHANGED vars
  BY <1>2, <1>3, <1>7 DEF vars, PagesQuiet
<1> QED BY <1>4, <1>5, <1>6, <1>7 DEF Next

\* Nothing is published and nobody told in the beginning.
LEMMA LibraryInit == Init => Library!CatalogueInit
<1> SUFFICES ASSUME Init PROVE Library!CatalogueInit
  OBVIOUS
<1>1. Playable = {} /\ \A u \in Uploads : up[u].pc = "new"
  BY DEF Init, Playable
<1> QED BY <1>1 DEF Library!CatalogueInit, At

(***************************************************************************)
(* A file none of whose registrations fails after its commit, whatever     *)
(* happens to the others, implements Catalogue.                            *)
(***************************************************************************)
THEOREM UploadsImplementCatalogue == Spec => UploadsFillCatalogue
<1>1. Inv /\ Inv' /\ [Next]_vars =>
        [Library!CatalogueNext]_<<Playable \ LateFiles,
          [u \in Uploads |-> IF At(u, "complete") /\ up[u].file \notin LateFiles
                             THEN up[u].file ELSE NoFile]>>
  BY LibraryStep DEF Told, ToldOf
<1> QED BY <1>1, LibraryInit, InvAlways, PTL
        DEF Spec, UploadsFillCatalogue, Library!CatalogueSpec
=============================================================================
