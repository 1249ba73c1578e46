------------------------------ MODULE MCCalls -------------------------------
(***************************************************************************)
(* The parts of the program that share no state with the daemon's threads, *)
(* side by side for TLC: start-up, test mode, key report, excute_cmd, the  *)
(* dueros formats and the URL file.  A behaviour exercises one of them,    *)
(* while the others stay as they began.                                    *)
(***************************************************************************)
EXTENDS TestMode, ReportKey, ExcuteCmd, DuerosFormat, FileUrl, Startup, TLC

BothInterfaces == <<"br0", "br1">>

callVars == <<testModeVars, reportKeyVars, excuteCmdVars, duerosFormatVars,
              fileUrlVars, startupVars>>

InitCalls ==
    /\ InitTestMode /\ InitReportKey /\ InitExcuteCmd
    /\ InitDuerosFormat /\ InitFileUrl /\ InitStartup

NextCalls ==
    \/ /\ InitReportKey /\ InitExcuteCmd /\ InitDuerosFormat /\ InitFileUrl /\ InitStartup
       /\ NextTestMode
       /\ UNCHANGED <<reportKeyVars, excuteCmdVars, duerosFormatVars, fileUrlVars, startupVars>>
    \/ /\ InitTestMode /\ InitExcuteCmd /\ InitDuerosFormat /\ InitFileUrl /\ InitStartup
       /\ NextReportKey
       /\ UNCHANGED <<testModeVars, excuteCmdVars, duerosFormatVars, fileUrlVars, startupVars>>
    \/ /\ InitTestMode /\ InitReportKey /\ InitDuerosFormat /\ InitFileUrl /\ InitStartup
       /\ NextExcuteCmd
       /\ UNCHANGED <<testModeVars, reportKeyVars, duerosFormatVars, fileUrlVars, startupVars>>
    \/ /\ InitTestMode /\ InitReportKey /\ InitExcuteCmd /\ InitFileUrl /\ InitStartup
       /\ NextDuerosFormat
       /\ UNCHANGED <<testModeVars, reportKeyVars, excuteCmdVars, fileUrlVars, startupVars>>
    \/ /\ InitTestMode /\ InitReportKey /\ InitExcuteCmd /\ InitDuerosFormat /\ InitStartup
       /\ NextFileUrl
       /\ UNCHANGED <<testModeVars, reportKeyVars, excuteCmdVars, duerosFormatVars, startupVars>>
    \/ /\ InitTestMode /\ InitReportKey /\ InitExcuteCmd /\ InitDuerosFormat /\ InitFileUrl
       /\ NextStartup
       /\ UNCHANGED <<testModeVars, reportKeyVars, excuteCmdVars, duerosFormatVars, fileUrlVars>>

\* A thread that is in a call goes on with it.
SpecCalls == InitCalls /\ [][NextCalls]_callVars /\ WF_callVars(NextCalls)
=============================================================================
