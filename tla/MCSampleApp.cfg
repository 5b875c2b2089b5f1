SPECIFICATION FairSpec
CONSTANTS
    Commands = {"library upgrade", "library downgrade", "app downgrade"}
    Orgs <- MCOrgs
    Accounts <- MCAccounts
    OrgOf <- MCOrgOf
    RoleGroups <- MCRoleGroups
    GroupsOf <- MCGroupsOf
    Scenarios <- MCScenarios
INVARIANTS
    RefusalIsForeign
    ProvisionedWhole
    ServedTenantsAreWhole
    OneRowPerUser
    ServesWhoSignedIn
PROPERTIES
    StartsAgain
