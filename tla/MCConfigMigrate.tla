-------------------------- MODULE MCConfigMigrate --------------------------
(***************************************************************************)
(* An instance of ConfigMigrate: two sections have a Port, with different  *)
(* defaults.                                                               *)
(***************************************************************************)
EXTENDS ConfigMigrate, TLC

CONSTANTS graphqlPort, publisherPort, Port

MCName == graphqlPort :> Port @@ publisherPort :> Port
MCDefault == graphqlPort :> 1 @@ publisherPort :> 2

=============================================================================
