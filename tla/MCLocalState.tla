---------------------------- MODULE MCLocalState ----------------------------
(* The components that keep state in files and tables of this machine, side *)
(* by side: a behaviour is one of a single component, chosen in the initial *)
(* state, and the variables of the others stay at one initial value.        *)
EXTENDS MCHomeLifecycle, DesktopConfig, Access, BrowserSession, ReleaseBundle,
        ObjectStore, TLC

VARIABLE part

MCArtifacts == <<"deye.whl", "install.sh", "keys/PUBKEY.pem">>

Parts == {"home", "desktop", "access", "browser", "release", "objects"}
Still(p) == part = p /\ UNCHANGED part

localVars == <<part, homeVars, desktopVars, accessVars, browserVars, releaseVars, vars>>

LocalInit ==
    /\ part \in Parts
    /\ HomeInit /\ (part # "home" => present)
    /\ DesktopInit /\ (part # "desktop" => original = Missing)
    /\ AccessInit
    /\ BrowserInit /\ (part # "browser" => available /\ grants = {})
    /\ ReleaseInit
    /\ Init

LocalNext ==
    \/ /\ Still("home") /\ HomeNext
       /\ UNCHANGED <<desktopVars, accessVars, browserVars, releaseVars, vars>>
    \/ /\ Still("desktop") /\ DesktopNext
       /\ UNCHANGED <<homeVars, accessVars, browserVars, releaseVars, vars>>
    \/ /\ Still("access") /\ AccessNext
       /\ UNCHANGED <<homeVars, desktopVars, browserVars, releaseVars, vars>>
    \/ /\ Still("browser") /\ BrowserNext
       /\ UNCHANGED <<homeVars, desktopVars, accessVars, releaseVars, vars>>
    \/ /\ Still("release") /\ ReleaseNext
       /\ UNCHANGED <<homeVars, desktopVars, accessVars, browserVars, vars>>
    \/ /\ Still("objects") /\ Next
       /\ UNCHANGED <<homeVars, desktopVars, accessVars, browserVars, releaseVars>>

LocalSpec == LocalInit /\ [][LocalNext]_localVars

Twins == Permutations(Commands)
=============================================================================
