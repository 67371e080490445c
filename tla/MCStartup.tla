------------------------------- MODULE MCStartup -------------------------------
(* Machines and command lines that meet every branch of the gates.            *)
EXTENDS Startup

\* Linux with or without gVisor and profiles, macOS, a first run, root.
SomeHosts ==
  {h \cup {"linux", "initialized"} : h \in SUBSET {"runsc", "apparmor", "seccomp"}}
    \cup {{"initialized", "seccomp"}, {"linux", "runsc"}, {"linux", "initialized", "root"}}

\* Gates crossed with scanning: each pair of options that interact.
SomeOptions ==
  {g \cup s : g \in {{}, {"strict"}, {"insecure"}, {"strict", "insecure"}, {"require-gvisor"},
                     {"auto-setup"}},
              s \in {{"write"}, {"write", "no-sovguard"}, {"sovguard-key", "write"}, {}}}
================================================================================
