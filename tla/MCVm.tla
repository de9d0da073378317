-------------------------------- MODULE MCVm --------------------------------
(* Instances of VmService for TLC. *)
EXTENDS VmService

\* What client.rs says of the provider: desktops are created, listed and
\* destroyed as sandboxes, and everything done inside one goes to /desktops.
DesktopsAreSandboxes ==
    {<<"create", "sandboxes">>, <<"destroy", "sandboxes">>, <<"pause", "desktops">>,
     <<"resume", "desktops">>, <<"use", "desktops">>}
=============================================================================
