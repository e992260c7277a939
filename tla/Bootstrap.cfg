SPECIFICATION FairSpec
CONSTANTS
    Devices = {d1, d2, d3}
    NoDevice = NoDevice
    Licenses = {l1, l2}
    NoLicense = NoLicense
    NoValue = NoValue
    Torn = Torn
    MaxIncidents = 2
INVARIANTS TypeOK RegistrationsPaidFor RunsSavedDevice LicenseInStep
PROPERTIES ImplementsRegister Recovers
