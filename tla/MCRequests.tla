------------------------------ MODULE MCRequests ------------------------------
EXTENDS Requests

\* Two runs of the session in one process; the other only relays stops.
MCHomeOf == [r \in Runs |-> "p1"]

\* A decree replaces a law; a circular amends both.
MCDeclares == [d \in LegalDocuments |->
    CASE d = "decree"   -> {<<"law", "full">>}
      [] d = "circular" -> {<<"law", "partial">>, <<"decree", "partial">>}
      [] OTHER          -> {}]

\* The first document cites the number of the second and names an agency.
MCRootOf == [d \in KgDocuments |-> IF d = "k1" THEN "n1" ELSE "n2"]
MCMentions == [d \in KgDocuments |-> IF d = "k1" THEN <<"agency", "n2">> ELSE <<>>]

\* Both personal workspaces are those of the user who is no superadmin.
MCHomeOwner == [h \in Homes |-> "bob"]
=============================================================================
