----------------------------- MODULE CursorStore -----------------------------
(***************************************************************************)
(* The storage of cursors: the registry's accounts and order of use        *)
(* (CursorRegistry) and the containers under it (CursorIndex).             *)
(*                                                                         *)
(* The accounts never depend on where the containers put a token, and the  *)
(* containers never on an account: only the sizes of both are shared.  So  *)
(* a behaviour is one of the registry with its containers at rest, one of  *)
(* the containers under any installs and removals, or one question of      *)
(* sizes.                                                                  *)
(***************************************************************************)
EXTENDS CursorRegistry, CursorIndex

CONSTANT Figures   \* the parts of a lineage that are added up

ASSUME FiguresAssumption == \A parts \in Figures : parts \in Seq(0 .. Top) /\ parts # <<>>

storeVars == <<vars, indexVars>>

IndexAtRest == home = <<>> /\ table = <<>> /\ arena = <<>> /\ held = <<>> /\ stale = {} /\ figures = <<>>

(* A registry that is closed and released does nothing any more.           *)
RegistryGone ==
  /\ lineages = [l \in Lineages |-> Free] /\ lru = <<>>
  /\ usedSlots = 0 /\ totalBytes = 0 /\ closed = TRUE /\ released = TRUE

FiguresInit ==
  /\ figures \in Figures
  /\ home = <<>> /\ table = <<>> /\ arena = <<>> /\ held = <<>> /\ stale = {}

StoreInit ==
  \/ Init /\ IndexAtRest
  \/ RegistryGone /\ (IndexInit \/ FiguresInit)

StoreNext ==
  \/ Next /\ UNCHANGED indexVars
  \/ held # <<>> /\ IndexNext /\ UNCHANGED vars

StoreSpec == StoreInit /\ [][StoreNext]_storeVars
-------------------------------------------------------------------------------
(* The containers of the registry keep what they are given: live tokens    *)
(* are found after any deletion, removed ones are not, an old reference    *)
(* stays invalid when its place is used again, and a size is refused just  *)
(* when it overflows (storage.go, accounting.go).                          *)
TablesExact ==
  /\ held # <<>> => TokensFound /\ RefsExact
  /\ figures # <<>> => FiguresExact
===============================================================================
