--------------------------- MODULE MCDescriptors ---------------------------
(***************************************************************************)
(* VusbDescriptors for TLC: the configurations of the real devices.        *)
(***************************************************************************)
EXTENDS VusbDescriptors, TLC

ClassDescriptor == [type |-> "CLASS", id |-> 0, alt |-> 0, eps |-> 0]

\* Interface n in alternate setting a, and its endpoints.
Interface(n, a, eps) == <<[type |-> "INTERFACE", id |-> n, alt |-> a, eps |-> eps]>>
Endpoints(addresses) ==
    [k \in DOMAIN addresses |->
        [type |-> "ENDPOINT", id |-> addresses[k], alt |-> 0, eps |-> 0]]

\* Bound of the model: a class descriptor between an interface and its endpoint,
\* alternate settings, an interface number that the client does not keep, and
\* more endpoints than it keeps.
MCConfigs ==
    {Interface(0, 0, 1) \o <<ClassDescriptor>> \o Endpoints(<<1>>),
     Interface(0, 0, 2) \o Endpoints(<<1, 2>>) \o Interface(0, 1, 1) \o Endpoints(<<4>>),
     Interface(0, 0, 1) \o Endpoints(<<1>>)
        \o Interface(MaxInterfaces, 0, 2) \o Endpoints(<<2, 3>>),
     Interface(0, 0, 3) \o Endpoints(<<1, 2, 3>>) \o Interface(1, 1, 2) \o Endpoints(<<4, 5>>)}

\* Real devices differ in their kinds and configurations only, and Init allows
\* every choice of those.
RealSymmetry == Permutations(Real)

=============================================================================
