------------------------------ MODULE ScoreApi ------------------------------
(***************************************************************************)
(* The calls of libSceNpScore that start an operation (np_score.cpp), as a *)
(* table: the submission of NpHandler a call ends in (np_handler_score.cpp),*)
(* and the faulty arguments it turns down before it touches the request.   *)
(* A call and its asynchronous form are one row.  Ops, at the end, is what *)
(* the request and the server tell apart.                                  *)
(***************************************************************************)
EXTENDS Naturals, FiniteSets

(* The submissions: which function of OnScoreReply fills the game's array. *)
Submission(fills) == [fills |-> fills]

RecordScoreCommand == Submission("none")
RecordGameDataCommand == Submission("none")
GetGameDataCommand == Submission("none")
GetGameDataByAccountIdCommand == Submission("none")
GetBoardInfoCommand == Submission("none")
GetRankingByNpIdCommand == Submission("PlayerRankData")
GetRankingByAccountIdCommand == Submission("PlayerRankDataA")
GetRankingByRangeCommand == Submission("RankData")
GetRankingByRangeACommand == Submission("RankDataA")
GetFriendsRankingCommand == Submission("RankData")
GetFriendsRankingACommand == Submission("RankDataA")

-----------------------------------------------------------------------------
(* The checks, each named for the fault it turns down; "sizes" stands for  *)
(* the array of ranks, "comments" and "infos" for the two optional ones.   *)
Arrays == {"sizes", "comments", "infos"}
Faults == Arrays \cup {"option", "info", "many", "start", "null", "zero", "total",
                       "account"}

RecordScoreChecks == {"option", "info"}
RangeChecks == {"option", "many", "start", "null", "zero"} \cup Arrays
\* Fault: the size of the comments is not compared with the number of entries.
NpIdChecks_NoComments == {"option", "many", "null", "sizes", "infos"}

NpIdChecks == {"option", "many", "null"} \cup Arrays
AccountIdChecks == {"option", "many", "null", "zero"} \cup Arrays
FriendsChecks == {"option", "many", "start", "null", "zero"} \cup Arrays
NpIdPcIdChecks == {"option", "many", "null", "zero"} \cup Arrays
AccountIdPcIdChecks == {"option", "many", "null", "zero"} \cup Arrays
BoardInfoChecks == {"option"}
GameDataChecks == {"option", "null"}
GameDataByAccountIdChecks == {"option", "account"}
RecordGameDataChecks == {"option", "total", "null", "zero"}
CensorCommentChecks == {"option", "null"}
SanitizeCommentChecks == {"option", "null"}

-----------------------------------------------------------------------------
(* The calls: what the operation does, with which submission, for which    *)
(* array.                                                                  *)
Call(kind, command, array, checks) ==
    [kind |-> kind, fills |-> command.fills, array |-> array, checks |-> checks]

RecordScore == Call("send", RecordScoreCommand, "none", RecordScoreChecks)
RecordScoreAsync == Call("send", RecordScoreCommand, "none", RecordScoreChecks)
GetRankingByRange ==
    Call("send", GetRankingByRangeCommand, "RankData", RangeChecks)
GetRankingByRangeA ==
    Call("send", GetRankingByRangeACommand, "RankDataA", RangeChecks)
GetRankingByNpId ==
    Call("send", GetRankingByNpIdCommand, "PlayerRankData", NpIdChecks)
GetRankingByAccountId ==
    Call("send", GetRankingByAccountIdCommand, "PlayerRankDataA", AccountIdChecks)
GetFriendsRanking ==
    Call("send", GetFriendsRankingCommand, "RankData", FriendsChecks)
GetFriendsRankingA ==
    Call("send", GetFriendsRankingACommand, "RankDataA", FriendsChecks)
GetRankingByNpIdPcId ==
    Call("send", GetRankingByNpIdCommand, "PlayerRankData", NpIdPcIdChecks)
GetRankingByAccountIdPcId ==
    Call("send", GetRankingByAccountIdCommand, "PlayerRankDataA", AccountIdPcIdChecks)
GetBoardInfo == Call("board", GetBoardInfoCommand, "none", BoardInfoChecks)
GetGameData == Call("npid", GetGameDataCommand, "none", GameDataChecks)
GetGameDataByAccountId ==
    Call("acc", GetGameDataByAccountIdCommand, "none", GameDataByAccountIdChecks)
RecordGameData == Call("write", RecordGameDataCommand, "none", RecordGameDataChecks)
CensorComment == Call("comment", Submission("none"), "none", CensorCommentChecks)
SanitizeComment == Call("comment", Submission("none"), "none", SanitizeCommentChecks)

Apis == {RecordScore, RecordScoreAsync, GetRankingByRange, GetRankingByRangeA,
         GetRankingByNpId, GetRankingByAccountId, GetFriendsRanking,
         GetFriendsRankingA, GetRankingByNpIdPcId, GetRankingByAccountIdPcId,
         GetBoardInfo, GetGameData, GetGameDataByAccountId, RecordGameData,
         CensorComment, SanitizeComment}

\* An operation as the request sees it; fits says whether what the reply fills is
\* of the kind and of the sizes the game gave.
Op(api, faults) ==
    [kind |-> IF api.kind # "board" THEN api.kind
              ELSE IF "null" \in faults THEN "nothing" ELSE "send",
     fits |-> api.array = api.fills /\ (api.fills = "none" \/ faults \cap Arrays = {})]

\* The calls that get past their checks, with at most one fault each
Ops == {Op(a, {}) : a \in Apis}
        \cup {Op(p[1], {p[2]}) :
                p \in {q \in Apis \X Faults : q[2] \notin q[1].checks}}
=============================================================================
