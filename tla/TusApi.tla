------------------------------- MODULE TusApi -------------------------------
(***************************************************************************)
(* The calls of libSceNpTus that start an operation on the server          *)
(* (np_tus.cpp), as a table: which command of NpHandler (np_handler_tus.cpp)*)
(* a call submits, whose data it names, and which faulty arguments it      *)
(* turns down before it touches the request.  A call and its blocking form *)
(* are one row.  Ops, at the end, is what is left for the request and the  *)
(* server to tell apart: the calls that get past their checks.             *)
(***************************************************************************)
EXTENDS Naturals, FiniteSets

CONSTANT Name      \* the name some user and some virtual user share

-----------------------------------------------------------------------------
(* The commands: does the reply fill an array whose length the game gave,  *)
(* does the packet carry a list of owners, and which part of the transfer  *)
(* state of a request, if any, the call works on.                          *)

Command(fills, owners, transfer) ==
    [fills |-> fills, owners |-> owners, transfer |-> transfer]

GetMultiSlotVariable == Command(TRUE, "one", "none")
SetMultiSlotVariable == Command(FALSE, "one", "none")
TssGetDataCommand == Command(FALSE, "none", "read")
GetData == Command(FALSE, "one", "read")
DeleteMultiSlotData == Command(FALSE, "one", "none")
DeleteMultiSlotVariable == Command(FALSE, "one", "none")
GetMultiUserDataStatus == Command(TRUE, "list", "none")
GetMultiUserVariable == Command(TRUE, "list", "none")
TryAndSetVariable == Command(TRUE, "one", "none")
AddAndGetVariable == Command(TRUE, "one", "none")
GetFriendsDataStatus == Command(TRUE, "none", "none")
GetFriendsVariable == Command(TRUE, "none", "none")
GetMultiSlotDataStatus == Command(TRUE, "one", "none")
SetData == Command(FALSE, "one", "write")

-----------------------------------------------------------------------------
(* The checks, each named for the fault it turns down: a null pointer, an  *)
(* option, a length below one or above the limit, a negative slot, an      *)
(* array whose size is not its length, a virtual user without a name, ...  *)

OneSlot == {"null", "option", "slot"}
Array == {"length", "many"}
SlotArray == OneSlot \cup Array
Sized == {"size"}
Named == {"vuser"}
Compared == {"size", "compare"}
Chunk == {"total"}
Friends == {"null", "slot", "sort"} \cup Array \cup Sized
Ranked == {"optionSize", "rank"}
Faults == SlotArray \cup Sized \cup Named \cup Compared \cup Chunk \cup Friends
            \cup Ranked

Call(command, by, checks) == [command |-> command, by |-> by, checks |-> checks]

\* Fault: the size of the array is not compared with its length.
TusGetMultiSlotVariable_AnySize == Call(GetMultiSlotVariable, "user", SlotArray)

TusGetMultiSlotVariable ==
    Call(GetMultiSlotVariable, "user", SlotArray \cup Sized)
TusSetMultiSlotVariable == Call(SetMultiSlotVariable, "user", SlotArray)
TusGetMultiSlotVariableAVUser ==
    Call(GetMultiSlotVariable, "virtual", SlotArray \cup Sized \cup Named)
TusSetMultiSlotVariableVUser ==
    Call(SetMultiSlotVariable, "virtual", SlotArray \cup Named)
TusSetMultiSlotVariableA == Call(SetMultiSlotVariable, "account", SlotArray)
TusGetMultiSlotVariableA ==
    Call(GetMultiSlotVariable, "account", SlotArray \cup Sized)
TusGetDataA == Call(GetData, "account", OneSlot)
TusSetDataA == Call(SetData, "account", OneSlot \cup Chunk)
TusGetDataAVUser == Call(GetData, "virtual", OneSlot \cup Named)
TusSetDataAVUser == Call(SetData, "virtual", OneSlot \cup Chunk \cup Named)
TusAddAndGetVariable == Call(AddAndGetVariable, "user", OneSlot \cup Sized)
TusAddAndGetVariableVUser ==
    Call(AddAndGetVariable, "virtual", OneSlot \cup Sized \cup Named)
TusGetData == Call(GetData, "user", OneSlot)
TusGetDataVUser == Call(GetData, "virtual", OneSlot \cup Named)
TusGetFriendsDataStatus ==
    Call(GetFriendsDataStatus, "friends", Friends \cup {"option"})
TusGetFriendsVariable ==
    Call(GetFriendsVariable, "friends", Friends \cup {"option"})
TusGetMultiSlotDataStatus ==
    Call(GetMultiSlotDataStatus, "user", SlotArray \cup Sized)
TusGetMultiSlotDataStatusVUser ==
    Call(GetMultiSlotDataStatus, "virtual", SlotArray \cup Sized \cup Named)
TusSetData == Call(SetData, "user", OneSlot \cup Chunk)
TusSetDataVUser == Call(SetData, "virtual", OneSlot \cup Chunk \cup Named)
TusTryAndSetVariable == Call(TryAndSetVariable, "user", OneSlot \cup Compared)
TusTryAndSetVariableVUser ==
    Call(TryAndSetVariable, "virtual", OneSlot \cup Compared \cup Named)
TusAddAndGetVariableA == Call(AddAndGetVariable, "account", OneSlot \cup Sized)
TusAddAndGetVariableAVUser ==
    Call(AddAndGetVariable, "virtual", OneSlot \cup Sized \cup Named)
TusDeleteMultiSlotData == Call(DeleteMultiSlotData, "user", SlotArray)
TusDeleteMultiSlotDataVUser ==
    Call(DeleteMultiSlotData, "virtual", SlotArray \cup Named)
TusDeleteMultiSlotVariable == Call(DeleteMultiSlotVariable, "user", SlotArray)
TusDeleteMultiSlotVariableVUser ==
    Call(DeleteMultiSlotVariable, "virtual", SlotArray \cup Named)
TusGetMultiSlotDataStatusA ==
    Call(GetMultiSlotDataStatus, "account", SlotArray \cup Sized)
TusGetMultiSlotDataStatusAVUser ==
    Call(GetMultiSlotDataStatus, "virtual", SlotArray \cup Sized \cup Named)
TusGetMultiUserDataStatus ==
    Call(GetMultiUserDataStatus, "user", SlotArray \cup Sized)
TusGetMultiUserDataStatusVUser ==
    Call(GetMultiUserDataStatus, "virtual", SlotArray \cup Sized \cup Named)
TusGetMultiUserVariable ==
    Call(GetMultiUserVariable, "user", SlotArray \cup Sized)
TusGetMultiUserVariableVUser ==
    Call(GetMultiUserVariable, "virtual", SlotArray \cup Sized \cup Named)
TusTryAndSetVariableA ==
    Call(TryAndSetVariable, "account", OneSlot \cup Compared)
TusTryAndSetVariableAVUser ==
    Call(TryAndSetVariable, "virtual", OneSlot \cup Compared \cup Named)
TusDeleteMultiSlotDataA == Call(DeleteMultiSlotData, "account", SlotArray)
TusDeleteMultiSlotVariableA ==
    Call(DeleteMultiSlotVariable, "account", SlotArray)
TusGetFriendsDataStatusA ==
    Call(GetFriendsDataStatus, "friends", Friends \cup Ranked)
TusGetFriendsVariableA ==
    Call(GetFriendsVariable, "friends", Friends \cup Ranked)
TusGetMultiSlotVariableVUser ==
    Call(GetMultiSlotVariable, "virtual", SlotArray \cup Sized \cup Named)
TusGetMultiUserDataStatusA ==
    Call(GetMultiUserDataStatus, "account", SlotArray \cup Sized)
TusGetMultiUserDataStatusAVUser ==
    Call(GetMultiUserDataStatus, "virtual", SlotArray \cup Sized \cup Named)
TusGetMultiUserVariableA ==
    Call(GetMultiUserVariable, "account", SlotArray \cup Sized)
TusGetMultiUserVariableAVUser ==
    Call(GetMultiUserVariable, "virtual", SlotArray \cup Sized \cup Named)
TusAddAndGetVariableForCrossSave ==
    Call(AddAndGetVariable, "account", OneSlot \cup Sized)
TusAddAndGetVariableForCrossSaveVUser ==
    Call(AddAndGetVariable, "virtual", OneSlot \cup Sized \cup Named)
TusGetDataForCrossSave == Call(GetData, "account", OneSlot \cup Sized)
TusGetDataForCrossSaveVUser ==
    Call(GetData, "virtual", OneSlot \cup Sized \cup Named)
TusGetFriendsDataStatusForCrossSave ==
    Call(GetFriendsDataStatus, "friends", Friends \cup Ranked)
TusGetFriendsVariableForCrossSave ==
    Call(GetFriendsVariable, "friends", Friends \cup Ranked)
TusGetMultiSlotDataStatusForCrossSave ==
    Call(GetMultiSlotDataStatus, "account", SlotArray \cup Sized)
TusGetMultiSlotDataStatusForCrossSaveVUser ==
    Call(GetMultiSlotDataStatus, "virtual", SlotArray \cup Sized \cup Named)
TusGetMultiSlotVariableForCrossSave ==
    Call(GetMultiSlotVariable, "account", SlotArray \cup Sized)
TusGetMultiSlotVariableForCrossSaveVUser ==
    Call(GetMultiSlotVariable, "virtual", SlotArray \cup Sized \cup Named)
TusGetMultiUserDataStatusForCrossSave ==
    Call(GetMultiUserDataStatus, "account", SlotArray \cup Sized)
TusGetMultiUserDataStatusForCrossSaveVUser ==
    Call(GetMultiUserDataStatus, "virtual", SlotArray \cup Sized \cup Named)
TusGetMultiUserVariableForCrossSave ==
    Call(GetMultiUserVariable, "account", SlotArray \cup Sized)
TusGetMultiUserVariableForCrossSaveVUser ==
    Call(GetMultiUserVariable, "virtual", SlotArray \cup Sized \cup Named)
TusTryAndSetVariableForCrossSave ==
    Call(TryAndSetVariable, "account", OneSlot \cup Compared)
TusTryAndSetVariableForCrossSaveVUser ==
    Call(TryAndSetVariable, "virtual", OneSlot \cup Compared \cup Named)
TssGetData ==
    Call(TssGetDataCommand, "title", {"null", "slot", "size", "optionSize"})
TssGetSmallStorage ==
    Call([TssGetDataCommand EXCEPT !.transfer = "none"], "title", {"option", "many"})

Apis ==
    {TusGetMultiSlotVariable, TusSetMultiSlotVariable,
     TusGetMultiSlotVariableAVUser, TusSetMultiSlotVariableVUser,
     TusSetMultiSlotVariableA, TusGetMultiSlotVariableA, TusGetDataA,
     TusSetDataA, TusGetDataAVUser, TusSetDataAVUser, TusAddAndGetVariable,
     TusAddAndGetVariableVUser, TusGetData, TusGetDataVUser,
     TusGetFriendsDataStatus, TusGetFriendsVariable,
     TusGetMultiSlotDataStatus, TusGetMultiSlotDataStatusVUser, TusSetData,
     TusSetDataVUser, TusTryAndSetVariable, TusTryAndSetVariableVUser,
     TusAddAndGetVariableA, TusAddAndGetVariableAVUser,
     TusDeleteMultiSlotData, TusDeleteMultiSlotDataVUser,
     TusDeleteMultiSlotVariable, TusDeleteMultiSlotVariableVUser,
     TusGetMultiSlotDataStatusA, TusGetMultiSlotDataStatusAVUser,
     TusGetMultiUserDataStatus, TusGetMultiUserDataStatusVUser,
     TusGetMultiUserVariable, TusGetMultiUserVariableVUser,
     TusTryAndSetVariableA, TusTryAndSetVariableAVUser,
     TusDeleteMultiSlotDataA, TusDeleteMultiSlotVariableA,
     TusGetFriendsDataStatusA, TusGetFriendsVariableA,
     TusGetMultiSlotVariableVUser, TusGetMultiUserDataStatusA,
     TusGetMultiUserDataStatusAVUser, TusGetMultiUserVariableA,
     TusGetMultiUserVariableAVUser, TusAddAndGetVariableForCrossSave,
     TusAddAndGetVariableForCrossSaveVUser, TusGetDataForCrossSave,
     TusGetDataForCrossSaveVUser, TusGetFriendsDataStatusForCrossSave,
     TusGetFriendsVariableForCrossSave,
     TusGetMultiSlotDataStatusForCrossSave,
     TusGetMultiSlotDataStatusForCrossSaveVUser,
     TusGetMultiSlotVariableForCrossSave,
     TusGetMultiSlotVariableForCrossSaveVUser,
     TusGetMultiUserDataStatusForCrossSave,
     TusGetMultiUserDataStatusForCrossSaveVUser,
     TusGetMultiUserVariableForCrossSave,
     TusGetMultiUserVariableForCrossSaveVUser,
     TusTryAndSetVariableForCrossSave,
     TusTryAndSetVariableForCrossSaveVUser, TssGetData, TssGetSmallStorage}

-----------------------------------------------------------------------------
\* Whom the packet names.  A name that is empty leaves the account, then the
\* caller: only the lists say what they were given.
Addressee(command, by, faults) ==
    IF command.owners = "one" /\ by = "virtual" /\ "vuser" \in faults
    THEN "self" ELSE by

\* The owner part of a transfer's target: SameTarget sees a user and a virtual
\* user of one name as the same, and tells an account from both.
Owner(by) ==
    CASE by = "account" -> "account"
      [] by = "title"   -> ""
      [] OTHER          -> Name

\* A call as the request and the server see it.
Op(api, faults) ==
    LET c == api.command
    IN  [transfer |-> c.transfer,
         owner    |-> IF c.transfer = "none" THEN "" ELSE Owner(api.by),
         fits     |-> c.fills => "size" \notin faults,
         astray   |-> \/ Addressee(c, api.by, faults) # api.by
                      \/ /\ c.owners = "list" /\ api.by = "virtual"
                         /\ "vuser" \in faults]

\* The calls that get past their checks, with at most one fault each
Ops == {Op(a, {}) : a \in Apis}
        \cup {Op(p[1], {p[2]}) :
                p \in {q \in Apis \X Faults : q[2] \notin q[1].checks}}
=============================================================================
