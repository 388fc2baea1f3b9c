------------------------------ MODULE MCMounts ------------------------------
EXTENDS SandboxMounts

Share(source, at, mode) ==
    [source |-> source, at |-> at, mode |-> mode, optional |-> FALSE, create |-> FALSE]

A == <<"a">>
AB == <<"a", "b">>
D1 == <<"d1">>
D2 == <<"d2">>

Config(audio, shares) ==
    [network |-> "loopback", display |-> TRUE, xwayland |-> "none", audio |-> audio,
     home |-> "none", cache |-> "shared", dbus |-> "none", links |-> FALSE,
     talk |-> {}, scale |-> "native", bits |-> FALSE, shares |-> shares]

\* A share with one beneath it, the share changed, removed, masked, and an
\* overlay with a share beneath it.
MCSpecs == {
    Config(FALSE, << >>),
    Config(FALSE, << Share(D2, AB, "read-write") >>),
    Config(TRUE,  << Share(D1, A, "read-write"), Share(D2, AB, "read-write") >>),
    Config(FALSE, << Share(D2, A, "read-write"), Share(D2, AB, "read-write") >>),
    Config(FALSE, << Share(D1, A, "overlay"), Share(D2, AB, "read-write") >>) }

MCAudio == {Config(TRUE, << >>)}

MCHostPaths == {Usr, Exe, HostHome, D1, D2, D2 \o <<"f">>, D1 \o <<"b">>}
MCHosts == {D1}
MCLiveAt == {A, <<"a", "b", "c">>}
MCFiles == {D1 \o <<"b", "f">>, D2 \o <<"f">>}
MCSockets == {Pipewire}
MCFailAt == {AB}
MCLowers == {D1}


\* The properties say nothing once a mount went astray.  Two live mounts, exposed
\* files and overlays are tried while the sockets stay as they are.
Bounded ==
    /\ ~astray
    /\ Cardinality(unapplied) <= 1
    /\ Cardinality(DOMAIN tree) <= 7
    /\ (Len(live) > 1 \/ docs > 0 \/ \E d \in Lowers : gen[d] > 1)
            => (up = Sockets /\ \A s \in Sockets : gen[s] = 1)
=============================================================================
