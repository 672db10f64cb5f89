----------------------------- MODULE MCPlugins -----------------------------
EXTENDS Plugins

McBaseUrl == <<"v1">>

Devices == <<Text("devices")>>
OneDevice == <<Text("devices"), Captured("device")>>

McRegistrations ==
    {[route |-> Devices, method |-> "GET", handler |-> "getDevices"],
     [route |-> Devices, method |-> "POST", handler |-> "postDevices"],
     [route |-> OneDevice, method |-> "GET", handler |-> "getDevices"],
     [route |-> OneDevice, method |-> "PATCH", handler |-> "patchDevice"],
     [route |-> OneDevice, method |-> "DELETE", handler |-> "deleteDevice"]}

McPaths ==
    {<<"", "v1", "devices">>, <<"v1", "", "devices", "0">>,
     <<"v1", "devices", "1">>, <<"v1", "devices", "x", "">>,
     <<"testWorker">>, <<"testThrowAfterWakeup">>}
=============================================================================
